---- MODULE Spec2Model ----
(***************************************************************************)
(* The SMPP PDU codec of smpp.pdu (pdu_encoding.py): PDUEncoder and the   *)
(* field codecs it is built from, over a byte stream with a cursor.       *)
(*                                                                         *)
(* Bytes are naturals 0..255, a byte string is a sequence of them, and a  *)
(* file is a byte string with a 0-based cursor.  Python values are tagged *)
(* records [t, v] so that values of different types compare unequal.      *)
(***************************************************************************)
EXTENDS Integers, Sequences, FiniteSets, TLC

VARIABLES codec, length, pc, via, arg, out, file, start, pos, res

vars == <<codec, length, pc, via, arg, out, file, start, pos, res>>

(***************************************************************************)
(* Values                                                                  *)
(***************************************************************************)
Null == [t |-> "null"]
I(n) == [t |-> "int", v |-> n]
S(chars) == [t |-> "str", v |-> chars]
B(bytes) == [t |-> "bytes", v |-> bytes]
En(name) == [t |-> "enum", v |-> name]
Tm(rec) == [t |-> "time", v |-> rec]
EsmClass(mode, type, gsm_features) ==
    [t |-> "esm_class", v |-> [mode |-> mode, type |-> type, gsm_features |-> gsm_features]]
RegisteredDelivery(receipt, acks, notif) ==
    [t |-> "registered_delivery",
     v |-> [receipt |-> receipt, sme_originated_acks |-> acks, intermediate_notification |-> notif]]
DataCoding(scheme, scheme_data) ==
    [t |-> "data_coding", v |-> [scheme |-> scheme, scheme_data |-> scheme_data]]
DataCodingGsmMsg(msg_coding, msg_class) ==
    [t |-> "gsm_msg", v |-> [msg_coding |-> msg_coding, msg_class |-> msg_class]]
CallbackNum(dmi, ton, npi, digits) ==
    [t |-> "callback_num", v |-> [digit_mode_indicator |-> dmi, ton |-> ton, npi |-> npi, digits |-> digits]]
Subaddress(type_tag, value) ==
    [t |-> "subaddress", v |-> [type_tag |-> type_tag, value |-> value]]

\* None where a size or length is expected (self.length of a fresh OptionEncoder)
NoLength == -2

Min(a, b) == IF a < b THEN a ELSE b

(***************************************************************************)
(* Results of an encode (bytes or an exception) and of a decode (a value  *)
(* and the cursor after it, or an exception with its SMPP status).        *)
(***************************************************************************)
EOk(bytes) == [ok |-> TRUE, bytes |-> bytes, err |-> ""]
EFail(err) == [ok |-> FALSE, bytes |-> <<>>, err |-> err]
Ok(val, p) == [ok |-> TRUE, val |-> val, pos |-> p, cls |-> "", status |-> ""]
Fail(cls, status, p) == [ok |-> FALSE, val |-> Null, pos |-> p, cls |-> cls, status |-> status]

(***************************************************************************)
(* struct.pack / struct.unpack, big-endian unsigned                        *)
(***************************************************************************)
Pack(size, n) ==
    CASE size = 1 -> <<n % 256>>
      [] size = 2 -> <<(n \div 256) % 256, n % 256>>
      [] size = 4 -> <<(n \div 16777216) % 256, (n \div 65536) % 256, (n \div 256) % 256, n % 256>>

Unpack(bytes) ==
    CASE Len(bytes) = 1 -> bytes[1]
      [] Len(bytes) = 2 -> bytes[1] * 256 + bytes[2]
      [] Len(bytes) = 4 -> bytes[1] * 16777216 + bytes[2] * 65536 + bytes[3] * 256 + bytes[4]

\* file.read(size) with the EOF and short-read checks of IEncoder.read
Read(f, p, size) ==
    LET n == Min(size, Len(f) - p)
    IN  IF n = 0 \/ n # size
        THEN Fail("PDUCorruptError", "ESME_RINVMSGLEN", p + n)
        ELSE Ok(SubSeq(f, p + 1, p + size), p + size)

(***************************************************************************)
(* Name -> value tables of smpp.pdu.constants (SMPP v3.4 numeric codes).   *)
(***************************************************************************)
\* Command ids set bit 31 in responses, beyond the 32-bit signed integers of TLC,
\* so a command id is carried as the two 16-bit halves of its 32-bit value.
command_id_name_map ==
    [bind_transmitter_resp |-> <<32768, 2>>,
     query_sm_resp |-> <<32768, 3>>,
     submit_sm |-> <<0, 4>>,
     submit_sm_resp |-> <<32768, 4>>,
     deliver_sm |-> <<0, 5>>,
     deliver_sm_resp |-> <<32768, 5>>,
     enquire_link |-> <<0, 21>>]

command_status_name_map ==
    [ESME_ROK |-> 0, ESME_RINVMSGLEN |-> 1, ESME_RINVCMDLEN |-> 2, ESME_RINVCMDID |-> 3,
     ESME_RSYSERR |-> 8, ESME_RSUBMITFAIL |-> 69, ESME_RUNKNOWNERR |-> 255]

addr_ton_name_map ==
    [UNKNOWN |-> 0, INTERNATIONAL |-> 1, NATIONAL |-> 2, NETWORK_SPECIFIC |-> 3,
     SUBSCRIBER_NUMBER |-> 4, ALPHANUMERIC |-> 5, ABBREVIATED |-> 6]

addr_npi_name_map ==
    [UNKNOWN |-> 0, ISDN |-> 1, DATA |-> 3, TELEX |-> 4, LAND_MOBILE |-> 6, NATIONAL |-> 8,
     PRIVATE |-> 9, ERMES |-> 10, INTERNET |-> 14, WAP_CLIENT_ID |-> 18]

priority_flag_name_map == [LEVEL_0 |-> 0, LEVEL_1 |-> 1, LEVEL_2 |-> 2, LEVEL_3 |-> 3]

replace_if_present_flap_name_map == [DO_NOT_REPLACE |-> 0, REPLACE |-> 1]

message_state_name_map ==
    [ENROUTE |-> 1, DELIVERED |-> 2, EXPIRED |-> 3, DELETED |-> 4, UNDELIVERABLE |-> 5,
     ACCEPTED |-> 6, UNKNOWN |-> 7, REJECTED |-> 8]

addr_subunit_name_map ==
    [UNKNOWN |-> 0, MS_DISPLAY |-> 1, MOBILE_EQUIPMENT |-> 2, SMART_CARD_1 |-> 3,
     EXTERNAL_UNIT_1 |-> 4]

network_type_name_map ==
    [UNKNOWN |-> 0, GSM |-> 1, ANSI_136_TDMA |-> 2, IS_95_CDMA |-> 3, PDC |-> 4, PHS |-> 5,
     IDEN |-> 6, AMPS |-> 7, PAGING_NETWORK |-> 8]

bearer_type_name_map ==
    [UNKNOWN |-> 0, SMS |-> 1, CSD |-> 2, PACKET_DATA |-> 3, USSD |-> 4, CDPD |-> 5,
     DATATAC |-> 6, FLEX_REFLEX |-> 7, CELL_BROADCAST |-> 8]

payload_type_name_map == [DEFAULT |-> 0, WCMP |-> 1]

privacy_indicator_name_map ==
    [NOT_RESTRICTED |-> 0, RESTRICTED |-> 1, CONFIDENTIAL |-> 2, SECRET |-> 3]

language_indicator_name_map ==
    [UNSPECIFIED |-> 0, ENGLISH |-> 1, FRENCH |-> 2, SPANISH |-> 3, GERMAN |-> 4,
     PORTUGUESE |-> 5]

display_time_name_map == [TEMPORARY |-> 0, DEFAULT |-> 1, INVOKE |-> 2]

ms_availability_status_name_map == [AVAILABLE |-> 0, DENIED |-> 1, UNAVAILABLE |-> 2]

delivery_failure_reason_name_map ==
    [DESTINATION_UNAVAILABLE |-> 0, DESTINATION_ADDRESS_INVALID |-> 1,
     PERMANENT_NETWORK_ERROR |-> 2, TEMPORARY_NETWORK_ERROR |-> 3]

more_messages_to_send_name_map == [NO_MORE_MESSAGES |-> 0, MORE_MESSAGES |-> 1]

callback_num_digit_mode_indicator_name_map == [TBCD |-> 0, ASCII |-> 1]

subaddress_type_tag_name_map ==
    [RESERVED |-> 0, NSAP_EVEN |-> 128, NSAP_ODD |-> 136, USER_SPECIFIED |-> 160]

esm_class_mode_name_map == [DEFAULT |-> 0, DATAGRAM |-> 1, FORWARD |-> 2, STORE_AND_FORWARD |-> 3]

esm_class_type_name_map ==
    [DEFAULT |-> 0, SMSC_DELIVERY_RECEIPT |-> 4, DELIVERY_ACKNOWLEDGEMENT |-> 8,
     MANUAL_USER_ACKNOWLEDGEMENT |-> 16, CONVERSATION_ABORT |-> 24,
     INTERMEDIATE_DELIVERY_NOTIFICATION |-> 32]

esm_class_gsm_features_name_map == [UDHI_INDICATOR_SET |-> 64, SET_REPLY_PATH |-> 128]

registered_delivery_receipt_name_map ==
    [NO_SMSC_DELIVERY_RECEIPT_REQUESTED |-> 0, SMSC_DELIVERY_RECEIPT_REQUESTED |-> 1,
     SMSC_DELIVERY_RECEIPT_REQUESTED_FOR_FAILURE |-> 2]

registered_delivery_sme_originated_acks_name_map ==
    [SME_DELIVERY_ACK_REQUESTED |-> 4, SME_MANUAL_ACK_REQUESTED |-> 8]

data_coding_scheme_name_map == [GSM_MESSAGE_CLASS |-> 240]

data_coding_default_name_map ==
    [SMSC_DEFAULT_ALPHABET |-> 0, IA5_ASCII |-> 1, OCTET_UNSPECIFIED |-> 2, LATIN_1 |-> 3,
     OCTET_UNSPECIFIED_COMMON |-> 4, JIS |-> 5, CYRILLIC |-> 6, ISO_8859_8 |-> 7,
     UCS2 |-> 8, PICTOGRAM |-> 9, ISO_2022_JP |-> 10, EXTENDED_KANJI_JIS |-> 13,
     KS_C_5601 |-> 14]

data_coding_gsm_message_coding_name_map == [DEFAULT_ALPHABET |-> 0, DATA_8BIT |-> 4]

data_coding_gsm_message_class_name_map ==
    [CLASS_0 |-> 0, CLASS_1 |-> 1, CLASS_2 |-> 2, CLASS_3 |-> 3]

tag_name_map ==
    [dest_addr_subunit |-> 5, dest_network_type |-> 6, dest_bearer_type |-> 7,
     dest_telematics_id |-> 8, source_addr_subunit |-> 13, source_network_type |-> 14,
     source_bearer_type |-> 15, source_telematics_id |-> 16, qos_time_to_live |-> 23,
     payload_type |-> 25, additional_status_info_text |-> 29, receipted_message_id |-> 30,
     ms_msg_wait_facilities |-> 48, privacy_indicator |-> 513, source_subaddress |-> 514,
     dest_subaddress |-> 515, user_message_reference |-> 516, user_response_code |-> 517,
     source_port |-> 522, destination_port |-> 523, sar_msg_ref_num |-> 524,
     language_indicator |-> 525, sar_total_segments |-> 526, sar_segment_seqnum |-> 527,
     sc_interface_version |-> 528, callback_num_pres_ind |-> 770, callback_num_atag |-> 771,
     number_of_messages |-> 772, callback_num |-> 897, dpf_result |-> 1056, set_dpf |-> 1057,
     ms_availability_status |-> 1058, network_error_code |-> 1059, message_payload |-> 1060,
     delivery_failure_reason |-> 1061, more_messages_to_send |-> 1062, message_state |-> 1063,
     ussd_service_op |-> 1281, display_time |-> 4609, sms_signal |-> 4611,
     ms_validity |-> 4612, alert_on_message_delivery |-> 4876, its_reply_type |-> 4992,
     its_session_info |-> 4995]

\* the value -> name table that goes with a name -> value table
ValueMap(name_map) ==
    [val \in {name_map[n] : n \in DOMAIN name_map} |->
        CHOOSE n \in DOMAIN name_map : name_map[n] = val]


(***************************************************************************)
(* Bit operations on naturals                                              *)
(***************************************************************************)
RECURSIVE BitAnd(_, _)
BitAnd(a, b) ==
    IF a = 0 \/ b = 0 THEN 0
    ELSE (a % 2) * (b % 2) + 2 * BitAnd(a \div 2, b \div 2)

RECURSIVE BitOr(_, _)
BitOr(a, b) ==
    IF a = 0 THEN b
    ELSE IF b = 0 THEN a
    ELSE (IF a % 2 = 1 \/ b % 2 = 1 THEN 1 ELSE 0) + 2 * BitOr(a \div 2, b \div 2)

RECURSIVE OrAll(_)
OrAll(vals) ==
    IF vals = {} THEN 0
    ELSE LET x == CHOOSE y \in vals : TRUE IN BitOr(x, OrAll(vals \ {x}))

Zeros(n) == [i \in 1..n |-> 0]

(***************************************************************************)
(* Codec configurations.  A codec is a record: its kind (the class), the  *)
(* PDUNullableFieldEncoder flags, the null sentinel (nullHex), the decode *)
(* error class and status, and the parameters of its kind.                *)
(***************************************************************************)
Enc0 ==
    [kind |-> "", nullable |-> TRUE, decodeNull |-> FALSE, requireNull |-> FALSE,
     hasNull |-> FALSE, nullBytes |-> <<>>,
     cls |-> "PDUParseError", status |-> "ESME_RUNKNOWNERR",
     size |-> 0, min |-> 0, max |-> 0, maxSize |-> NoLength, sizeSrc |-> "none", map |-> <<>>]

\* 2 ** (8 * size) - 1; the 4-byte maximum is held at the largest integer of
\* TLC, which no value of the model exceeds.
IntMax(size) == IF size = 1 THEN 255 ELSE IF size = 2 THEN 65535 ELSE 2147483647

\* IntegerBaseEncoder.__init__(min=.., max=.., nullable=.., decodeNull=.., requireNull=..)
IntegerBaseEncoder(size, min, max, nullable, decodeNull, requireNull) ==
    [Enc0 EXCEPT !.kind = "int", !.size = size, !.min = min, !.max = max,
                 !.nullable = nullable, !.requireNull = requireNull,
                 !.decodeNull = decodeNull \/ (nullable /\ min > 0),
                 !.hasNull = TRUE, !.nullBytes = Zeros(size)]

Int1Encoder == IntegerBaseEncoder(1, 0, IntMax(1), TRUE, FALSE, FALSE)
Int2Encoder == IntegerBaseEncoder(2, 0, IntMax(2), TRUE, FALSE, FALSE)
Int4Encoder == IntegerBaseEncoder(4, 0, IntMax(4), TRUE, FALSE, FALSE)

\* IntegerWrapperEncoder subclasses: name_map, the wrapped integer size,
\* nullable, decodeErrorClass, decode_error_status
IntegerWrapperEncoder(name_map, size, nullable, cls, status) ==
    [Enc0 EXCEPT !.kind = "enum", !.map = name_map, !.size = size, !.nullable = nullable,
                 !.cls = cls, !.status = status,
                 !.hasNull = TRUE, !.nullBytes = Zeros(size)]

CommandIdEncoder ==
    [Enc0 EXCEPT !.kind = "command_id", !.map = command_id_name_map, !.size = 4,
                 !.cls = "PDUCorruptError", !.status = "ESME_RINVCMDID",
                 !.hasNull = TRUE, !.nullBytes = Zeros(4)]

CommandStatusEncoder ==
    [Enc0 EXCEPT !.kind = "command_status", !.map = command_status_name_map, !.size = 4,
                 !.nullable = FALSE, !.max = IntMax(4),
                 !.hasNull = TRUE, !.nullBytes = Zeros(4)]

TagEncoder ==
    IntegerWrapperEncoder(tag_name_map, 2, TRUE, "PDUParseError", "ESME_RINVOPTPARSTREAM")

AddrTonEncoder(status) ==
    IntegerWrapperEncoder(addr_ton_name_map, 1, TRUE, "PDUParseError", status)
AddrNpiEncoder(status) ==
    IntegerWrapperEncoder(addr_npi_name_map, 1, TRUE, "PDUParseError", status)
PriorityFlagEncoder ==
    IntegerWrapperEncoder(priority_flag_name_map, 1, TRUE, "PDUParseError", "ESME_RINVPRTFLG")
ReplaceIfPresentFlagEncoder ==
    IntegerWrapperEncoder(replace_if_present_flap_name_map, 1, TRUE, "PDUParseError",
                          "ESME_RUNKNOWNERR")
MessageStateEncoder ==
    IntegerWrapperEncoder(message_state_name_map, 1, FALSE, "PDUParseError", "ESME_RUNKNOWNERR")
CallbackNumDigitModeIndicatorEncoder ==
    IntegerWrapperEncoder(callback_num_digit_mode_indicator_name_map, 1, FALSE,
                          "PDUParseError", "ESME_RINVOPTPARAMVAL")
SubaddressTypeTagEncoder ==
    IntegerWrapperEncoder(subaddress_type_tag_name_map, 1, FALSE, "PDUParseError",
                          "ESME_RINVOPTPARAMVAL")
\* the enum codecs that set nothing but field_name, name_map and pdu_type
PlainEnumEncoder(name_map) ==
    IntegerWrapperEncoder(name_map, 1, TRUE, "PDUParseError", "ESME_RUNKNOWNERR")

EsmClassEncoder == [Int1Encoder EXCEPT !.kind = "esm_class"]
RegisteredDeliveryEncoder == [Int1Encoder EXCEPT !.kind = "registered_delivery"]
DataCodingEncoder == [Int1Encoder EXCEPT !.kind = "data_coding"]

\* OctetStringEncoder(size): size is None ("none"), a number ("const") or the
\* bound method OptionEncoder.getLength ("length")
OctetStringEncoder(sizeSrc, size) ==
    [Enc0 EXCEPT !.kind = "octet_string", !.nullable = FALSE, !.sizeSrc = sizeSrc,
                 !.size = size]
CallbackNumEncoder(sizeSrc, size) ==
    [OctetStringEncoder(sizeSrc, size) EXCEPT !.kind = "callback_num"]
SubaddressEncoder(sizeSrc, size) ==
    [OctetStringEncoder(sizeSrc, size) EXCEPT !.kind = "subaddress"]

\* COctetStringEncoder(maxSize, decodeNull=.., requireNull=.., decode_error_status=..);
\* maxSize NoLength is None
COctetStringEncoder(maxSize, decodeNull, requireNull, status) ==
    [Enc0 EXCEPT !.kind = "c_octet_string", !.maxSize = maxSize, !.decodeNull = decodeNull,
                 !.requireNull = requireNull, !.status = status,
                 !.hasNull = TRUE, !.nullBytes = <<0>>]

\* TimeEncoder(requireNull=.., decode_error_status=..)
TimeEncoder(requireNull, status) ==
    [Enc0 EXCEPT !.kind = "time", !.decodeNull = TRUE, !.requireNull = requireNull,
                 !.status = status, !.hasNull = TRUE, !.nullBytes = <<0>>]

\* The decode_error_status of every TimeEncoder in the order the module
\* constructs them: each construction assigns it to the one COctetStringEncoder(17)
\* that all TimeEncoders share as the class attribute `encoder`.
TimeEncoderConstructions ==
    <<"ESME_RINVSCHED", "ESME_RINVEXPIRY", "ESME_RUNKNOWNERR", "ESME_RINVSCHED",
      "ESME_RINVEXPIRY">>

TimeEncoder_encoder ==
    COctetStringEncoder(17, FALSE, FALSE,
                        TimeEncoderConstructions[Len(TimeEncoderConstructions)])

ShortMessageEncoder == [Enc0 EXCEPT !.kind = "short_message"]
smLengthEncoder == IntegerBaseEncoder(1, 0, 254, TRUE, FALSE, FALSE)
EmptyEncoder == [Enc0 EXCEPT !.kind = "empty"]


(***************************************************************************)
(* smpp_time: the 16-character time string YYMMDDhhmmsstnnp                *)
(***************************************************************************)
TwoDigits(n) == <<48 + ((n \div 10) % 10), 48 + (n % 10)>>

SignChars == [plus |-> 43, minus |-> 45, R |-> 82]

smpp_time_unparse(tv) ==
    TwoDigits(tv.yy) \o TwoDigits(tv.mm) \o TwoDigits(tv.dd) \o TwoDigits(tv.hh)
        \o TwoDigits(tv.mi) \o TwoDigits(tv.ss) \o <<48 + (tv.t % 10)>> \o TwoDigits(tv.nn)
        \o <<SignChars[tv.p]>>

IsDigit(c) == c >= 48 /\ c <= 57
Num2(chars, i) == (chars[i] - 48) * 10 + (chars[i + 1] - 48)

smpp_time_parse(chars) ==
    IF Len(chars) # 16
       \/ (\E i \in 1..15 : ~IsDigit(chars[i]))
       \/ chars[16] \notin {SignChars[k] : k \in DOMAIN SignChars}
    THEN [ok |-> FALSE, val |-> Null]
    ELSE [ok |-> TRUE,
          val |-> Tm([yy |-> Num2(chars, 1), mm |-> Num2(chars, 3), dd |-> Num2(chars, 5),
                      hh |-> Num2(chars, 7), mi |-> Num2(chars, 9), ss |-> Num2(chars, 11),
                      t |-> chars[13] - 48, nn |-> Num2(chars, 14),
                      p |-> CHOOSE k \in DOMAIN SignChars : SignChars[k] = chars[16]])]

(***************************************************************************)
(* _encode of each codec class                                             *)
(***************************************************************************)
\* b''.join of what two encodes return: the first failure, else the bytes of both
EThen(a, b) == IF ~a.ok THEN a ELSE IF ~b.ok THEN b ELSE EOk(a.bytes \o b.bytes)

\* IntegerBaseEncoder._encode
IntegerEncode(e, n) ==
    IF n > e.max THEN EFail("ValueError")
    ELSE IF n < e.min THEN EFail("ValueError")
    ELSE EOk(Pack(e.size, n))

\* IntegerWrapperEncoder._encode
IntegerWrapperEncode(e, v) ==
    IF v.t # "enum" \/ v.v \notin DOMAIN e.map THEN EFail("ValueError")
    ELSE EOk(Pack(e.size, e.map[v.v]))

\* CommandIdEncoder: IntegerWrapperEncoder._encode over the two halves
CommandIdEncode(e, v) ==
    IF v.t # "enum" \/ v.v \notin DOMAIN e.map THEN EFail("ValueError")
    ELSE EOk(Pack(2, e.map[v.v][1]) \o Pack(2, e.map[v.v][2]))

\* CommandStatusEncoder._encode
CommandStatusEncode(e, v) ==
    IF v.t # "enum" \/ v.v \notin DOMAIN command_status_name_map THEN EFail("ValueError")
    ELSE IntegerEncode(Int4Encoder, command_status_name_map[v.v])

\* COctetStringEncoder._encode with the terminator left out of the size check
COctetStringEncodeOffByOne(e, v) ==
    IF \E i \in 1..Len(v.v) : v.v[i] > 127 THEN EFail("UnicodeEncodeError")
    ELSE IF e.maxSize # NoLength /\ Len(v.v) > e.maxSize THEN EFail("ValueError")
    ELSE EOk(v.v \o <<0>>)

\* COctetStringEncoder._encode
COctetStringEncode(e, v) ==
    IF \E i \in 1..Len(v.v) : v.v[i] > 127 THEN EFail("UnicodeEncodeError")
    ELSE IF e.maxSize # NoLength /\ Len(v.v) + 1 > e.maxSize THEN EFail("ValueError")
    ELSE EOk(v.v \o <<0>>)

\* TimeEncoder._encode
TimeEncode(e, v) == COctetStringEncode(TimeEncoder_encoder, S(smpp_time_unparse(v.v)))

\* EsmClassEncoder._encode
EsmClassEncode(e, v) ==
    LET c == v.v IN
    IF c.mode \notin DOMAIN esm_class_mode_name_map THEN EFail("ValueError")
    ELSE IF c.type \notin DOMAIN esm_class_type_name_map THEN EFail("ValueError")
    ELSE IF \E f \in c.gsm_features : f \notin DOMAIN esm_class_gsm_features_name_map
    THEN EFail("ValueError")
    ELSE IntegerEncode(Int1Encoder,
            BitOr(BitOr(esm_class_mode_name_map[c.mode], esm_class_type_name_map[c.type]),
                  OrAll({esm_class_gsm_features_name_map[f] : f \in c.gsm_features})))

intermediateNotificationMask == 16

\* RegisteredDeliveryEncoder._encode
RegisteredDeliveryEncode(e, v) ==
    LET c == v.v IN
    IF c.receipt \notin DOMAIN registered_delivery_receipt_name_map THEN EFail("ValueError")
    ELSE IF \E a \in c.sme_originated_acks :
                a \notin DOMAIN registered_delivery_sme_originated_acks_name_map
    THEN EFail("ValueError")
    ELSE IntegerEncode(Int1Encoder,
            BitOr(BitOr(registered_delivery_receipt_name_map[c.receipt],
                        IF c.intermediate_notification THEN intermediateNotificationMask ELSE 0),
                  OrAll({registered_delivery_sme_originated_acks_name_map[a] :
                            a \in c.sme_originated_acks})))

\* DataCodingEncoder._encodeGsmMsgSchemeDataAsInt
encodeGsmMsgSchemeDataAsInt(gsm) ==
    IF gsm.msg_coding \notin DOMAIN data_coding_gsm_message_coding_name_map THEN -1
    ELSE IF gsm.msg_class \notin DOMAIN data_coding_gsm_message_class_name_map THEN -1
    ELSE BitOr(data_coding_gsm_message_coding_name_map[gsm.msg_coding],
               data_coding_gsm_message_class_name_map[gsm.msg_class])

\* DataCodingEncoder._encodeAsInt and what it calls; -1 stands for a ValueError
encodeAsInt(dc) ==
    IF dc.scheme = "RAW" THEN dc.scheme_data.v
    ELSE IF dc.scheme = "DEFAULT"
    THEN IF dc.scheme_data.v \notin DOMAIN data_coding_default_name_map THEN -1
         ELSE data_coding_default_name_map[dc.scheme_data.v]
    ELSE IF dc.scheme \notin DOMAIN data_coding_scheme_name_map THEN -1
    ELSE IF dc.scheme # "GSM_MESSAGE_CLASS" THEN -1
    ELSE LET WithSchemeData(d) ==
                IF d = -1 THEN -1 ELSE BitOr(data_coding_scheme_name_map[dc.scheme], d)
         IN  WithSchemeData(encodeGsmMsgSchemeDataAsInt(dc.scheme_data.v))

\* DataCodingEncoder._encode
DataCodingEncode(e, v) ==
    LET AsByte(n) == IF n = -1 THEN EFail("ValueError") ELSE IntegerEncode(Int1Encoder, n)
    IN  AsByte(encodeAsInt(v.v))

\* OctetStringEncoder.getSize: the constant, or the callable's value now
getSize(e, len) ==
    CASE e.sizeSrc = "none" -> NoLength
      [] e.sizeSrc = "const" -> e.size
      [] e.sizeSrc = "length" -> len

\* OctetStringEncoder._encode
OctetStringEncode(e, v, len) ==
    IF getSize(e, len) # NoLength /\ Len(v.v) # getSize(e, len) THEN EFail("ValueError")
    ELSE EOk(v.v)

\* CallbackNumEncoder._encode
CallbackNumEncode(e, v) ==
    EThen(EThen(EThen(IntegerWrapperEncode(CallbackNumDigitModeIndicatorEncoder,
                                           v.v.digit_mode_indicator),
                      IntegerWrapperEncode(AddrTonEncoder("ESME_RUNKNOWNERR"), v.v.ton)),
                IntegerWrapperEncode(AddrNpiEncoder("ESME_RUNKNOWNERR"), v.v.npi)),
          EOk(v.v.digits))

\* SubaddressEncoder._encode
SubaddressEncode(e, v, len) ==
    LET valSize == IF getSize(e, len) # NoLength THEN getSize(e, len) - 1 ELSE NoLength
    IN  EThen(IntegerWrapperEncode(SubaddressTypeTagEncoder, v.v.type_tag),
              OctetStringEncode(OctetStringEncoder("const", valSize), B(v.v.value), len))

\* _encode, by class
RawEncode(e, v, len) ==
    CASE e.kind = "int" -> IntegerEncode(e, v.v)
      [] e.kind = "enum" -> IntegerWrapperEncode(e, v)
      [] e.kind = "command_id" -> CommandIdEncode(e, v)
      [] e.kind = "command_status" -> CommandStatusEncode(e, v)
      [] e.kind = "c_octet_string" -> COctetStringEncode(e, v)
      [] e.kind = "time" -> TimeEncode(e, v)
      [] e.kind = "esm_class" -> EsmClassEncode(e, v)
      [] e.kind = "registered_delivery" -> RegisteredDeliveryEncode(e, v)
      [] e.kind = "data_coding" -> DataCodingEncode(e, v)
      [] e.kind = "octet_string" -> OctetStringEncode(e, v, len)
      [] e.kind = "callback_num" -> CallbackNumEncode(e, v)
      [] e.kind = "subaddress" -> SubaddressEncode(e, v, len)

\* PDUNullableFieldEncoder.encode
NullableEncode(e, v, len) ==
    IF v = Null
    THEN IF ~e.nullable THEN EFail("ValueError")
         ELSE IF ~e.hasNull THEN EFail("NotImplementedError")
         ELSE EOk(e.nullBytes)
    ELSE IF e.requireNull THEN EFail("ValueError")
    ELSE RawEncode(e, v, len)

\* ShortMessageEncoder.encode
ShortMessageEncode(v) ==
    LET shortMessage == IF v = Null THEN <<>> ELSE v.v
    IN  EThen(NullableEncode(smLengthEncoder, I(Len(shortMessage)), NoLength),
              NullableEncode(OctetStringEncoder("const", Len(shortMessage)), B(shortMessage),
                             NoLength))

\* encode of any field codec; len is OptionEncoder.length at the time of the call
FieldEncode(e, v, len) ==
    CASE e.kind = "empty" -> EOk(<<>>)
      [] e.kind = "short_message" -> ShortMessageEncode(v)
      [] OTHER -> NullableEncode(e, v, len)


(***************************************************************************)
(* _read and _decode of each codec class                                   *)
(***************************************************************************)
\* COctetStringEncoder._read: one byte at a time up to the terminator
COctetStringRead(f, p, result) ==
    LET ends == {i \in (p + 1)..Len(f) : f[i] = 0}
        end == CHOOSE i \in ends : \A j \in ends : i <= j
    IN  IF ends = {} THEN Read(f, Len(f), 1)
        ELSE Ok(result \o SubSeq(f, p + 1, end), end)

\* OctetStringEncoder._read
OctetStringRead(e, f, p, len) ==
    IF getSize(e, len) = NoLength THEN Fail("AssertionError", "", p)
    ELSE IF getSize(e, len) = 0 THEN Ok(<<>>, p)
    ELSE Read(f, p, getSize(e, len))

\* _read, by class
RawRead(e, f, p, len) ==
    CASE e.kind \in {"c_octet_string", "time"} -> COctetStringRead(f, p, <<>>)
      [] e.kind \in {"octet_string", "callback_num", "subaddress"} -> OctetStringRead(e, f, p, len)
      [] OTHER -> Read(f, p, e.size)

\* IntegerWrapperEncoder._decode
IntegerWrapperDecode(e, bytes, p) ==
    IF Unpack(bytes) \notin DOMAIN ValueMap(e.map) THEN Fail(e.cls, e.status, p)
    ELSE Ok(En(ValueMap(e.map)[Unpack(bytes)]), p)

\* CommandIdEncoder: IntegerWrapperEncoder._decode over the two halves
CommandIdDecode(e, bytes, p) ==
    LET int_val == <<Unpack(SubSeq(bytes, 1, 2)), Unpack(SubSeq(bytes, 3, 4))>>
    IN  IF int_val \notin DOMAIN ValueMap(e.map) THEN Fail(e.cls, e.status, p)
        ELSE Ok(En(ValueMap(e.map)[int_val]), p)

\* CommandStatusEncoder._decode
CommandStatusDecode(e, bytes, p) ==
    IF Unpack(bytes) \notin DOMAIN ValueMap(command_status_name_map)
    THEN Fail("PDUParseError", "ESME_RUNKNOWNERR", p)
    ELSE Ok(En(ValueMap(command_status_name_map)[Unpack(bytes)]), p)

\* COctetStringEncoder._decode with the terminator kept in the string
COctetStringDecodeWithTerminator(e, bytes, p) ==
    IF e.maxSize # NoLength /\ Len(bytes) > e.maxSize THEN Fail(e.cls, e.status, p)
    ELSE IF \E i \in 1..Len(bytes) : bytes[i] > 127 THEN Fail("UnicodeDecodeError", "", p)
    ELSE Ok(S(bytes), p)

\* COctetStringEncoder._decode
COctetStringDecode(e, bytes, p) ==
    IF e.maxSize # NoLength /\ Len(bytes) > e.maxSize THEN Fail(e.cls, e.status, p)
    ELSE IF \E i \in 1..Len(bytes) : bytes[i] > 127 THEN Fail("UnicodeDecodeError", "", p)
    ELSE Ok(S(SubSeq(bytes, 1, Len(bytes) - 1)), p)

\* TimeEncoder._decode
TimeDecode(e, bytes, p) ==
    LET Parsed(time) == IF ~time.ok THEN Fail(e.cls, e.status, p) ELSE Ok(time.val, p)
        Decoded(timeStr) ==
            IF ~timeStr.ok THEN timeStr ELSE Parsed(smpp_time_parse(timeStr.val.v))
    IN  Decoded(COctetStringDecode(TimeEncoder_encoder, bytes, p))

modeMask == 3
typeMask == 60
gsmFeaturesMask == 192

\* EsmClassEncoder._decode
EsmClassDecode(e, bytes, p) ==
    LET intVal == Unpack(bytes)
        modeVal == BitAnd(intVal, modeMask)
        typeVal == BitAnd(intVal, typeMask)
        gsmFeaturesVal == BitAnd(intVal, gsmFeaturesMask)
    IN  IF modeVal \notin DOMAIN ValueMap(esm_class_mode_name_map)
        THEN Fail("PDUParseError", "ESME_RINVESMCLASS", p)
        ELSE IF typeVal \notin DOMAIN ValueMap(esm_class_type_name_map)
        THEN Fail("PDUParseError", "ESME_RINVESMCLASS", p)
        ELSE Ok(EsmClass(ValueMap(esm_class_mode_name_map)[modeVal],
                         ValueMap(esm_class_type_name_map)[typeVal],
                         {f \in DOMAIN esm_class_gsm_features_name_map :
                             BitAnd(esm_class_gsm_features_name_map[f], gsmFeaturesVal) # 0}), p)

receiptMask == 3
smeOriginatedAcksMask == 12

\* RegisteredDeliveryEncoder._decode
RegisteredDeliveryDecode(e, bytes, p) ==
    LET intVal == Unpack(bytes)
        receiptVal == BitAnd(intVal, receiptMask)
        smeOriginatedAcksVal == BitAnd(intVal, smeOriginatedAcksMask)
        intermediateNotificationVal == BitAnd(intVal, intermediateNotificationMask)
    IN  IF receiptVal \notin DOMAIN ValueMap(registered_delivery_receipt_name_map)
        THEN Fail("PDUParseError", "ESME_RINVREGDLVFLG", p)
        ELSE Ok(RegisteredDelivery(
                    ValueMap(registered_delivery_receipt_name_map)[receiptVal],
                    {a \in DOMAIN registered_delivery_sme_originated_acks_name_map :
                        BitAnd(registered_delivery_sme_originated_acks_name_map[a],
                               smeOriginatedAcksVal) # 0},
                    intermediateNotificationVal # 0), p)

schemeMask == 240
schemeDataMask == 15
gsmMsgCodingMask == 4
gsmMsgClassMask == 3

\* _decodeScheme without the lookup of the byte among the DEFAULT values
decodeSchemeWithoutDefault(int_val) ==
    IF BitAnd(int_val, schemeMask) \in DOMAIN ValueMap(data_coding_scheme_name_map)
    THEN ValueMap(data_coding_scheme_name_map)[BitAnd(int_val, schemeMask)]
    ELSE "RAW"

\* DataCodingEncoder._decodeScheme
decodeScheme(int_val) ==
    IF BitAnd(int_val, schemeMask) \in DOMAIN ValueMap(data_coding_scheme_name_map)
    THEN ValueMap(data_coding_scheme_name_map)[BitAnd(int_val, schemeMask)]
    ELSE IF int_val \in DOMAIN ValueMap(data_coding_default_name_map) THEN "DEFAULT"
    ELSE "RAW"

\* DataCodingEncoder._decodeGsmMsgSchemeData
decodeGsmMsgSchemeData(schemeDataVal) ==
    DataCodingGsmMsg(
        ValueMap(data_coding_gsm_message_coding_name_map)[BitAnd(schemeDataVal, gsmMsgCodingMask)],
        ValueMap(data_coding_gsm_message_class_name_map)[BitAnd(schemeDataVal, gsmMsgClassMask)])

\* DataCodingEncoder._decodeSchemeData
decodeSchemeData(scheme, intVal) ==
    IF scheme = "RAW" THEN I(intVal)
    ELSE IF scheme = "DEFAULT" THEN En(ValueMap(data_coding_default_name_map)[intVal])
    ELSE decodeGsmMsgSchemeData(BitAnd(intVal, schemeDataMask))

\* DataCodingEncoder._decode
DataCodingDecode(e, bytes, p) ==
    Ok(DataCoding(decodeScheme(Unpack(bytes)),
                  decodeSchemeData(decodeScheme(Unpack(bytes)), Unpack(bytes))), p)

\* CallbackNumEncoder._decode
CallbackNumDecode(e, bytes, p) ==
    IF Len(bytes) < 3 THEN Fail("PDUParseError", "ESME_RINVOPTPARAMVAL", p)
    ELSE LET d == IntegerWrapperDecode(CallbackNumDigitModeIndicatorEncoder, SubSeq(bytes, 1, 1), p)
             t == IntegerWrapperDecode(AddrTonEncoder("ESME_RUNKNOWNERR"), SubSeq(bytes, 2, 2), p)
             n == IntegerWrapperDecode(AddrNpiEncoder("ESME_RUNKNOWNERR"), SubSeq(bytes, 3, 3), p)
         IN  IF ~d.ok THEN d ELSE IF ~t.ok THEN t ELSE IF ~n.ok THEN n
             ELSE Ok(CallbackNum(d.val, t.val, n.val, SubSeq(bytes, 4, Len(bytes))), p)

\* SubaddressEncoder._decode
SubaddressDecode(e, bytes, p) ==
    IF Len(bytes) < 2 THEN Fail("PDUParseError", "ESME_RINVOPTPARAMVAL", p)
    ELSE LET t == IntegerWrapperDecode(SubaddressTypeTagEncoder, SubSeq(bytes, 1, 1), p)
         IN  IF ~t.ok THEN t
             ELSE Ok(Subaddress(t.val, SubSeq(bytes, 2, Len(bytes))), p)

\* _decode, by class
RawDecode(e, bytes, p, len) ==
    CASE e.kind = "int" -> Ok(I(Unpack(bytes)), p)
      [] e.kind = "enum" -> IntegerWrapperDecode(e, bytes, p)
      [] e.kind = "command_id" -> CommandIdDecode(e, bytes, p)
      [] e.kind = "command_status" -> CommandStatusDecode(e, bytes, p)
      [] e.kind = "c_octet_string" -> COctetStringDecode(e, bytes, p)
      [] e.kind = "time" -> TimeDecode(e, bytes, p)
      [] e.kind = "esm_class" -> EsmClassDecode(e, bytes, p)
      [] e.kind = "registered_delivery" -> RegisteredDeliveryDecode(e, bytes, p)
      [] e.kind = "data_coding" -> DataCodingDecode(e, bytes, p)
      [] e.kind = "octet_string" -> Ok(B(bytes), p)
      [] e.kind = "callback_num" -> CallbackNumDecode(e, bytes, p)
      [] e.kind = "subaddress" -> SubaddressDecode(e, bytes, p)

\* PDUNullableFieldEncoder.decode
NullableDecode(e, f, p, len) ==
    LET Decoded(bytes_) ==
            IF ~bytes_.ok THEN bytes_
            ELSE IF e.decodeNull /\ ~e.hasNull THEN Fail("NotImplementedError", "", bytes_.pos)
            ELSE IF e.decodeNull /\ e.nullBytes = bytes_.val THEN Ok(Null, bytes_.pos)
            ELSE IF e.decodeNull /\ e.requireNull
            THEN Fail("PDUParseError", "ESME_RUNKNOWNERR", bytes_.pos)
            ELSE RawDecode(e, bytes_.val, bytes_.pos, len)
    IN  Decoded(RawRead(e, f, p, len))

\* ShortMessageEncoder.decode
ShortMessageDecode(f, p) ==
    LET Message(smLength) ==
            IF ~smLength.ok THEN smLength
            ELSE NullableDecode(OctetStringEncoder("const", smLength.val.v), f, smLength.pos,
                                NoLength)
    IN  Message(NullableDecode(smLengthEncoder, f, p, NoLength))

\* decode of any field codec; len is OptionEncoder.length at the time of the call
FieldDecode(e, f, p, len) ==
    CASE e.kind = "empty" -> Ok(Null, p)
      [] e.kind = "short_message" -> ShortMessageDecode(f, p)
      [] OTHER -> NullableDecode(e, f, p, len)


(***************************************************************************)
(* OptionEncoder: the TLV codec of optional parameters                     *)
(***************************************************************************)
\* OptionEncoder.options, by tag name
options ==
    [dest_addr_subunit |-> PlainEnumEncoder(addr_subunit_name_map),
     source_addr_subunit |-> PlainEnumEncoder(addr_subunit_name_map),
     dest_network_type |-> PlainEnumEncoder(network_type_name_map),
     source_network_type |-> PlainEnumEncoder(network_type_name_map),
     dest_bearer_type |-> PlainEnumEncoder(bearer_type_name_map),
     source_bearer_type |-> PlainEnumEncoder(bearer_type_name_map),
     dest_telematics_id |-> Int2Encoder,
     source_telematics_id |-> Int2Encoder,
     qos_time_to_live |-> Int4Encoder,
     payload_type |-> PlainEnumEncoder(payload_type_name_map),
     additional_status_info_text |-> COctetStringEncoder(256, FALSE, FALSE, "ESME_RUNKNOWNERR"),
     receipted_message_id |-> COctetStringEncoder(65, FALSE, FALSE, "ESME_RUNKNOWNERR"),
     privacy_indicator |-> PlainEnumEncoder(privacy_indicator_name_map),
     source_subaddress |-> SubaddressEncoder("length", 0),
     dest_subaddress |-> SubaddressEncoder("length", 0),
     user_message_reference |-> Int2Encoder,
     user_response_code |-> Int1Encoder,
     language_indicator |-> PlainEnumEncoder(language_indicator_name_map),
     source_port |-> Int2Encoder,
     destination_port |-> Int2Encoder,
     sar_msg_ref_num |-> Int2Encoder,
     sar_total_segments |-> Int1Encoder,
     sar_segment_seqnum |-> Int1Encoder,
     sc_interface_version |-> Int1Encoder,
     display_time |-> PlainEnumEncoder(display_time_name_map),
     ms_availability_status |-> PlainEnumEncoder(ms_availability_status_name_map),
     message_payload |-> OctetStringEncoder("length", 0),
     delivery_failure_reason |-> PlainEnumEncoder(delivery_failure_reason_name_map),
     more_messages_to_send |-> PlainEnumEncoder(more_messages_to_send_name_map),
     message_state |-> MessageStateEncoder,
     callback_num |-> CallbackNumEncoder("length", 0),
     number_of_messages |-> IntegerBaseEncoder(1, 0, 99, TRUE, FALSE, FALSE),
     sms_signal |-> OctetStringEncoder("length", 0),
     alert_on_message_delivery |-> EmptyEncoder]

Option(tag, value) == [tag |-> tag, value |-> value]

\* OptionEncoder.encode with the length of the tag and length fields counted in the length field
OptionEncodeWholeLength(option, len) ==
    LET Join(encodedValue) ==
            IF ~encodedValue.ok THEN encodedValue
            ELSE EThen(EThen(NullableEncode(TagEncoder, En(option.tag), len),
                             NullableEncode(Int2Encoder, I(Len(encodedValue.bytes) + 4), len)),
                       encodedValue)
    IN  IF option.tag \notin DOMAIN options THEN EFail("ValueError")
        ELSE Join(FieldEncode(options[option.tag], option.value, len))

\* OptionEncoder.encode; len is self.length as the call finds it
OptionEncode(option, len) ==
    LET Join(encodedValue) ==
            IF ~encodedValue.ok THEN encodedValue
            ELSE EThen(EThen(NullableEncode(TagEncoder, En(option.tag), len),
                             NullableEncode(Int2Encoder, I(Len(encodedValue.bytes)), len)),
                       encodedValue)
    IN  IF option.tag \notin DOMAIN options THEN EFail("ValueError")
        ELSE Join(FieldEncode(options[option.tag], option.value, len))

\* The outcome of a decode that may assign self.length: the result and the
\* value self.length holds afterwards.
WithLength(r, len) == [r |-> r, length |-> len]

\* OptionEncoder.decode without the check of the bytes parsed against the length field
OptionDecodeAnyLength(f, p, len) ==
    LET Value(tag, newLength, value) ==
            IF ~value.ok
            THEN WithLength(IF value.cls = "PDUParseError"
                            THEN Fail("PDUParseError", "ESME_RINVOPTPARAMVAL", value.pos)
                            ELSE value, newLength)
            ELSE WithLength(Ok(Option(tag.val.v, value.val), value.pos), newLength)
        Length(tag, lengthField, newLength) ==
            IF ~lengthField.ok THEN WithLength(lengthField, len)
            ELSE IF tag.val = Null \/ tag.val.v \notin DOMAIN options
            THEN WithLength(Fail("PDUParseError", "ESME_ROPTPARNOTALLWD", lengthField.pos),
                            newLength)
            ELSE Value(tag, newLength,
                       FieldDecode(options[tag.val.v], f, lengthField.pos, newLength))
        AfterLength(tag, lengthField) ==
            Length(tag, lengthField,
                   IF lengthField.val = Null THEN NoLength ELSE lengthField.val.v)
        Tag(tag) ==
            IF ~tag.ok THEN WithLength(tag, len)
            ELSE AfterLength(tag, NullableDecode(Int2Encoder, f, tag.pos, len))
    IN  Tag(NullableDecode(TagEncoder, f, p, len))

\* OptionEncoder.decode that lets a PDUParseError of the value codec through as it is
OptionDecodeKeepStatus(f, p, len) ==
    LET Value(tag, newLength, iBeforeDecode, value) ==
            IF ~value.ok THEN WithLength(value, newLength)
            ELSE IF value.pos - iBeforeDecode # newLength
            THEN WithLength(Fail("PDUParseError", "ESME_RINVPARLEN", value.pos), newLength)
            ELSE WithLength(Ok(Option(tag.val.v, value.val), value.pos), newLength)
        Length(tag, lengthField, newLength) ==
            IF ~lengthField.ok THEN WithLength(lengthField, len)
            ELSE IF tag.val = Null \/ tag.val.v \notin DOMAIN options
            THEN WithLength(Fail("PDUParseError", "ESME_ROPTPARNOTALLWD", lengthField.pos),
                            newLength)
            ELSE Value(tag, newLength, lengthField.pos,
                       FieldDecode(options[tag.val.v], f, lengthField.pos, newLength))
        AfterLength(tag, lengthField) ==
            Length(tag, lengthField,
                   IF lengthField.val = Null THEN NoLength ELSE lengthField.val.v)
        Tag(tag) ==
            IF ~tag.ok THEN WithLength(tag, len)
            ELSE AfterLength(tag, NullableDecode(Int2Encoder, f, tag.pos, len))
    IN  Tag(NullableDecode(TagEncoder, f, p, len))

\* OptionEncoder.decode
OptionDecode(f, p, len) ==
    LET Value(tag, newLength, iBeforeDecode, value) ==
            IF ~value.ok
            THEN WithLength(IF value.cls = "PDUParseError"
                            THEN Fail("PDUParseError", "ESME_RINVOPTPARAMVAL", value.pos)
                            ELSE value, newLength)
            ELSE IF value.pos - iBeforeDecode # newLength
            THEN WithLength(Fail("PDUParseError", "ESME_RINVPARLEN", value.pos), newLength)
            ELSE WithLength(Ok(Option(tag.val.v, value.val), value.pos), newLength)
        Length(tag, lengthField, newLength) ==
            IF ~lengthField.ok THEN WithLength(lengthField, len)
            ELSE IF tag.val = Null \/ tag.val.v \notin DOMAIN options
            THEN WithLength(Fail("PDUParseError", "ESME_ROPTPARNOTALLWD", lengthField.pos),
                            newLength)
            ELSE Value(tag, newLength, lengthField.pos,
                       FieldDecode(options[tag.val.v], f, lengthField.pos, newLength))
        AfterLength(tag, lengthField) ==
            Length(tag, lengthField,
                   IF lengthField.val = Null THEN NoLength ELSE lengthField.val.v)
        Tag(tag) ==
            IF ~tag.ok THEN WithLength(tag, len)
            ELSE AfterLength(tag, NullableDecode(Int2Encoder, f, tag.pos, len))
    IN  Tag(NullableDecode(TagEncoder, f, p, len))

(***************************************************************************)
(* smpp.pdu.operations: the commands and their static metadata             *)
(***************************************************************************)
SmMandatoryParams ==
    <<"service_type", "source_addr_ton", "source_addr_npi", "source_addr", "dest_addr_ton",
      "dest_addr_npi", "destination_addr", "esm_class", "protocol_id", "priority_flag",
      "schedule_delivery_time", "validity_period", "registered_delivery",
      "replace_if_present_flag", "data_coding", "sm_default_msg_id", "short_message">>

mandatory_params ==
    [enquire_link |-> <<>>,
     bind_transmitter_resp |-> <<"system_id">>,
     submit_sm_resp |-> <<"message_id">>,
     deliver_sm_resp |-> <<"message_id">>,
     query_sm_resp |-> <<"message_id", "final_date", "message_state", "error_code">>,
     submit_sm |-> SmMandatoryParams,
     deliver_sm |-> SmMandatoryParams]

optional_params ==
    [enquire_link |-> <<>>,
     bind_transmitter_resp |-> <<"sc_interface_version">>,
     submit_sm_resp |-> <<>>,
     deliver_sm_resp |-> <<>>,
     query_sm_resp |-> <<>>,
     submit_sm |->
        <<"user_message_reference", "source_port", "source_addr_subunit", "destination_port",
          "dest_addr_subunit", "sar_msg_ref_num", "sar_total_segments", "sar_segment_seqnum",
          "more_messages_to_send", "payload_type", "message_payload", "privacy_indicator",
          "callback_num", "callback_num_pres_ind", "callback_num_atag", "source_subaddress",
          "dest_subaddress", "user_response_code", "display_time", "sms_signal", "ms_validity",
          "ms_msg_wait_facilities", "number_of_messages", "alert_on_message_delivery",
          "language_indicator", "its_reply_type", "its_session_info", "ussd_service_op">>,
     deliver_sm |->
        <<"user_message_reference", "source_port", "destination_port", "sar_msg_ref_num",
          "sar_total_segments", "sar_segment_seqnum", "user_response_code",
          "privacy_indicator", "payload_type", "message_payload", "callback_num",
          "source_subaddress", "dest_subaddress", "language_indicator", "its_session_info",
          "network_error_code", "message_state", "receipted_message_id">>]

no_body_on_error ==
    [enquire_link |-> FALSE, bind_transmitter_resp |-> TRUE, submit_sm_resp |-> TRUE,
     deliver_sm_resp |-> FALSE, query_sm_resp |-> FALSE, submit_sm |-> FALSE,
     deliver_sm |-> FALSE]

EmptyParams == [n \in {} |-> Null]

\* A PDU: the class (id, with its metadata above) and the instance fields
PDU(id, sequence_number, status, params) ==
    [id |-> id, sequence_number |-> sequence_number, status |-> status, params |-> params]

Range(seq) == {seq[i] : i \in 1..Len(seq)}


(***************************************************************************)
(* PDUEncoder                                                              *)
(***************************************************************************)
HEADER_LEN == 16

HeaderEncoders ==
    [command_length |-> Int4Encoder,
     command_id |-> CommandIdEncoder,
     command_status |-> CommandStatusEncoder,
     sequence_number |-> IntegerBaseEncoder(4, 1, IntMax(4), TRUE, FALSE, FALSE)]

HeaderParams == <<"command_length", "command_id", "command_status", "sequence_number">>

DefaultRequiredParamEncoders ==
    [system_id |-> COctetStringEncoder(16, FALSE, FALSE, "ESME_RINVSYSID"),
     password |-> COctetStringEncoder(9, FALSE, FALSE, "ESME_RINVPASWD"),
     system_type |-> COctetStringEncoder(13, FALSE, FALSE, "ESME_RUNKNOWNERR"),
     interface_version |-> Int1Encoder,
     addr_ton |-> AddrTonEncoder("ESME_RUNKNOWNERR"),
     addr_npi |-> AddrNpiEncoder("ESME_RUNKNOWNERR"),
     address_range |-> COctetStringEncoder(41, FALSE, FALSE, "ESME_RUNKNOWNERR"),
     service_type |-> COctetStringEncoder(6, FALSE, FALSE, "ESME_RINVSERTYP"),
     source_addr_ton |-> AddrTonEncoder("ESME_RINVSRCTON"),
     source_addr_npi |-> AddrNpiEncoder("ESME_RINVSRCNPI"),
     source_addr |-> COctetStringEncoder(21, FALSE, FALSE, "ESME_RINVSRCADR"),
     dest_addr_ton |-> AddrTonEncoder("ESME_RINVDSTTON"),
     dest_addr_npi |-> AddrNpiEncoder("ESME_RINVDSTNPI"),
     destination_addr |-> COctetStringEncoder(21, FALSE, FALSE, "ESME_RINVDSTADR"),
     esm_class |-> EsmClassEncoder,
     esme_addr_ton |-> AddrTonEncoder("ESME_RUNKNOWNERR"),
     esme_addr_npi |-> AddrNpiEncoder("ESME_RUNKNOWNERR"),
     esme_addr |-> COctetStringEncoder(65, FALSE, FALSE, "ESME_RUNKNOWNERR"),
     protocol_id |-> Int1Encoder,
     priority_flag |-> PriorityFlagEncoder,
     schedule_delivery_time |-> TimeEncoder(FALSE, "ESME_RINVSCHED"),
     validity_period |-> TimeEncoder(FALSE, "ESME_RINVEXPIRY"),
     registered_delivery |-> RegisteredDeliveryEncoder,
     replace_if_present_flag |-> ReplaceIfPresentFlagEncoder,
     data_coding |-> DataCodingEncoder,
     sm_default_msg_id |-> IntegerBaseEncoder(1, 1, 254, TRUE, FALSE, FALSE),
     short_message |-> ShortMessageEncoder,
     message_id |-> COctetStringEncoder(65, FALSE, FALSE, "ESME_RINVMSGID"),
     message_state |-> MessageStateEncoder,
     final_date |-> TimeEncoder(FALSE, "ESME_RUNKNOWNERR"),
     error_code |-> IntegerBaseEncoder(1, 0, IntMax(1), TRUE, TRUE, FALSE)]

CustomRequiredParamEncoders ==
    [alert_notification |->
        [source_addr |-> COctetStringEncoder(65, FALSE, FALSE, "ESME_RINVSRCADR")],
     data_sm |->
        [source_addr |-> COctetStringEncoder(65, FALSE, FALSE, "ESME_RINVSRCADR"),
         destination_addr |-> COctetStringEncoder(65, FALSE, FALSE, "ESME_RINVDSTADR")],
     deliver_sm |->
        [schedule_delivery_time |-> TimeEncoder(TRUE, "ESME_RINVSCHED"),
         validity_period |-> TimeEncoder(TRUE, "ESME_RINVEXPIRY")],
     deliver_sm_resp |->
        [message_id |-> COctetStringEncoder(NoLength, TRUE, TRUE, "ESME_RINVMSGID")]]

\* PDUEncoder.getRequiredParamEncoders without the overrides of CustomRequiredParamEncoders
getDefaultRequiredParamEncoders(id) == DefaultRequiredParamEncoders

\* PDUEncoder.getRequiredParamEncoders
getRequiredParamEncoders(id) ==
    IF id \in DOMAIN CustomRequiredParamEncoders
    THEN CustomRequiredParamEncoders[id] @@ DefaultRequiredParamEncoders
    ELSE DefaultRequiredParamEncoders

\* PDUEncoder.encodeRequiredParams, from the i-th name of paramList on
RECURSIVE encodeRequiredParams(_, _, _, _, _)
encodeRequiredParams(paramList, encoderMap, params, i, len) ==
    IF i > Len(paramList) THEN EOk(<<>>)
    ELSE EThen(FieldEncode(encoderMap[paramList[i]], params[paramList[i]], len),
               encodeRequiredParams(paramList, encoderMap, params, i + 1, len))

\* encodeOptionalParams that walks optional_params from its last name to its first
RECURSIVE encodeOptionalParamsReversed(_, _, _, _)
encodeOptionalParamsReversed(optionalParams, params, i, len) ==
    IF i > Len(optionalParams) THEN EOk(<<>>)
    ELSE EThen(encodeOptionalParamsReversed(optionalParams, params, i + 1, len),
               IF optionalParams[i] \in DOMAIN params
               THEN OptionEncode(Option(optionalParams[i], params[optionalParams[i]]), len)
               ELSE EOk(<<>>))

\* PDUEncoder.encodeOptionalParams, from the i-th name of optional_params on
RECURSIVE encodeOptionalParams(_, _, _, _)
encodeOptionalParams(optionalParams, params, i, len) ==
    IF i > Len(optionalParams) THEN EOk(<<>>)
    ELSE EThen(IF optionalParams[i] \in DOMAIN params
               THEN OptionEncode(Option(optionalParams[i], params[optionalParams[i]]), len)
               ELSE EOk(<<>>),
               encodeOptionalParams(optionalParams, params, i + 1, len))

\* PDUEncoder.encodeBody without the no_body_on_error case
encodeBodyAlways(pdu, len) ==
    IF \E paramName \in Range(mandatory_params[pdu.id]) : paramName \notin DOMAIN pdu.params
    THEN EFail("ValueError")
    ELSE EThen(encodeRequiredParams(mandatory_params[pdu.id], getRequiredParamEncoders(pdu.id),
                                    pdu.params, 1, len),
               encodeOptionalParams(optional_params[pdu.id], pdu.params, 1, len))

\* PDUEncoder.encodeBody
encodeBody(pdu, len) ==
    IF pdu.status # "ESME_ROK" /\ no_body_on_error[pdu.id] THEN EOk(<<>>)
    ELSE IF \E paramName \in Range(mandatory_params[pdu.id]) : paramName \notin DOMAIN pdu.params
    THEN EFail("ValueError")
    ELSE EThen(encodeRequiredParams(mandatory_params[pdu.id], getRequiredParamEncoders(pdu.id),
                                    pdu.params, 1, len),
               encodeOptionalParams(optional_params[pdu.id], pdu.params, 1, len))

\* PDUEncoder.encodeHeader with the length of the body alone as command_length
encodeHeaderBodyLength(pdu, body, len) ==
    encodeRequiredParams(HeaderParams, HeaderEncoders,
                         [command_length |-> I(Len(body)),
                          command_id |-> En(pdu.id),
                          command_status |-> En(pdu.status),
                          sequence_number |-> pdu.sequence_number], 1, len)

\* PDUEncoder.encodeHeader
encodeHeader(pdu, body, len) ==
    encodeRequiredParams(HeaderParams, HeaderEncoders,
                         [command_length |-> I(Len(body) + HEADER_LEN),
                          command_id |-> En(pdu.id),
                          command_status |-> En(pdu.status),
                          sequence_number |-> pdu.sequence_number], 1, len)

\* PDUEncoder.encode
PDUEncode(pdu, len) ==
    LET Whole(body) ==
            IF ~body.ok THEN body ELSE EThen(encodeHeader(pdu, body.bytes, len), body)
    IN  Whole(encodeBody(pdu, len))

\* PDUEncoder.decodeRequiredParams, from the i-th name of paramList on
RECURSIVE decodeRequiredParams(_, _, _, _, _, _)
decodeRequiredParams(paramList, encoderMap, f, p, i, params) ==
    LET Rest(one) ==
            IF ~one.ok THEN one
            ELSE decodeRequiredParams(paramList, encoderMap, f, one.pos, i + 1,
                                      (paramList[i] :> one.val) @@ params)
    IN  IF i > Len(paramList) THEN Ok(params, p)
        ELSE Rest(FieldDecode(encoderMap[paramList[i]], f, p, NoLength))

\* PDUEncoder.decodeHeader without the check of command_length
decodeHeaderAnyLength(f, p) ==
    decodeRequiredParams(HeaderParams, HeaderEncoders, f, p, 1, EmptyParams)

\* PDUEncoder.decodeHeader
decodeHeader(f, p) ==
    LET Checked(headerParams) ==
            IF ~headerParams.ok THEN headerParams
            ELSE IF headerParams.val.command_length.v < HEADER_LEN
            THEN Fail("PDUCorruptError", "ESME_RINVCMDLEN", headerParams.pos)
            ELSE headerParams
    IN  Checked(decodeRequiredParams(HeaderParams, HeaderEncoders, f, p, 1, EmptyParams))

\* PDUEncoder.decodeOptionalParams without the check of the tag against paramList
RECURSIVE decodeOptionalParamsAnyTag(_, _, _, _, _, _, _)
decodeOptionalParamsAnyTag(paramList, f, iBefore, p, optionsLength, optionalParams, len) ==
    LET Rest(option) ==
            IF ~option.r.ok THEN option
            ELSE decodeOptionalParamsAnyTag(paramList, f, iBefore, option.r.pos, optionsLength,
                                            (option.r.val.tag :> option.r.val.value)
                                                @@ optionalParams,
                                            option.length)
    IN  IF ~(p - iBefore < optionsLength) THEN WithLength(Ok(optionalParams, p), len)
        ELSE Rest(OptionDecode(f, p, len))

\* PDUEncoder.decodeOptionalParams: the loop, with the cursor at p
RECURSIVE decodeOptionalParams(_, _, _, _, _, _, _)
decodeOptionalParams(paramList, f, iBefore, p, optionsLength, optionalParams, len) ==
    LET Rest(option) ==
            IF ~option.r.ok THEN option
            ELSE IF option.r.val.tag \notin Range(paramList)
            THEN WithLength(Fail("PDUParseError", "ESME_ROPTPARNOTALLWD", option.r.pos),
                            option.length)
            ELSE decodeOptionalParams(paramList, f, iBefore, option.r.pos, optionsLength,
                                      (option.r.val.tag :> option.r.val.value) @@ optionalParams,
                                      option.length)
    IN  IF ~(p - iBefore < optionsLength) THEN WithLength(Ok(optionalParams, p), len)
        ELSE Rest(OptionDecode(f, p, len))

\* PDUEncoder.decodeBody: the params the PDU ends with
decodeBody(f, p, id, status, bodyLength, len) ==
    LET Optional(m, o) ==
            IF ~o.r.ok THEN o ELSE WithLength(Ok(o.r.val @@ m.val, o.r.pos), o.length)
        Mandatory(m) ==
            IF ~m.ok THEN WithLength(m, len)
            ELSE Optional(m, IF Len(optional_params[id]) > 0
                             THEN decodeOptionalParams(optional_params[id], f, m.pos, m.pos,
                                                       bodyLength - (m.pos - p), EmptyParams,
                                                       len)
                             ELSE WithLength(Ok(EmptyParams, m.pos), len))
    IN  IF status # "ESME_ROK" /\ no_body_on_error[id] THEN WithLength(Ok(EmptyParams, p), len)
        ELSE Mandatory(IF Len(mandatory_params[id]) > 0
                       THEN decodeRequiredParams(mandatory_params[id],
                                                 getRequiredParamEncoders(id), f, p, 1,
                                                 EmptyParams)
                       ELSE Ok(EmptyParams, p))

\* PDUEncoder.decode without the check of the bytes read against command_length
PDUDecodeAnyLength(f, p, len) ==
    LET Body(h, body) ==
            IF ~body.r.ok THEN body
            ELSE WithLength(Ok(PDU(h.command_id.v, h.sequence_number, h.command_status.v,
                                   body.r.val), body.r.pos), body.length)
        Header(headerParams) ==
            IF ~headerParams.ok THEN WithLength(headerParams, len)
            ELSE Body(headerParams.val,
                      decodeBody(f, headerParams.pos, headerParams.val.command_id.v,
                                 headerParams.val.command_status.v,
                                 headerParams.val.command_length.v - HEADER_LEN, len))
    IN  Header(decodeHeader(f, p))

\* PDUEncoder.decode from the cursor p, on an instance whose OptionEncoder.length is len
PDUDecode(f, p, len) ==
    LET Body(h, body) ==
            IF ~body.r.ok THEN body
            ELSE IF body.r.pos - p # h.command_length.v
            THEN WithLength(Fail("PDUCorruptError", "ESME_RINVCMDLEN", body.r.pos), body.length)
            ELSE WithLength(Ok(PDU(h.command_id.v, h.sequence_number, h.command_status.v,
                                   body.r.val), body.r.pos), body.length)
        Header(headerParams) ==
            IF ~headerParams.ok THEN WithLength(headerParams, len)
            ELSE Body(headerParams.val,
                      decodeBody(f, headerParams.pos, headerParams.val.command_id.v,
                                 headerParams.val.command_status.v,
                                 headerParams.val.command_length.v - HEADER_LEN, len))
    IN  Header(decodeHeader(f, p))


(***************************************************************************)
(* The PDUs given to encode                                                *)
(***************************************************************************)
Rep(n, c) == [i \in 1..n |-> c]

Time1 == [yy |-> 26, mm |-> 11, dd |-> 3, hh |-> 7, mi |-> 44, ss |-> 5, t |-> 0, nn |-> 4, p |-> "plus"]
TimeR == [yy |-> 0, mm |-> 0, dd |-> 1, hh |-> 0, mi |-> 0, ss |-> 0, t |-> 0, nn |-> 0, p |-> "R"]

BaseSmParams ==
    [service_type |-> S(<<>>),
     source_addr_ton |-> En("UNKNOWN"),
     source_addr_npi |-> En("UNKNOWN"),
     source_addr |-> S(<<49>>),
     dest_addr_ton |-> En("INTERNATIONAL"),
     dest_addr_npi |-> En("ISDN"),
     destination_addr |-> S(<<50>>),
     esm_class |-> EsmClass("DEFAULT", "DEFAULT", {}),
     protocol_id |-> I(0),
     priority_flag |-> En("LEVEL_0"),
     schedule_delivery_time |-> Null,
     validity_period |-> Null,
     registered_delivery |-> RegisteredDelivery("NO_SMSC_DELIVERY_RECEIPT_REQUESTED", {}, FALSE),
     replace_if_present_flag |-> En("DO_NOT_REPLACE"),
     data_coding |-> DataCoding("DEFAULT", En("SMSC_DEFAULT_ALPHABET")),
     sm_default_msg_id |-> Null,
     short_message |-> B(<<72, 105>>)]

\* one mandatory param of a submit_sm or deliver_sm set to another value
SmParamChoices ==
    {<<"service_type", S(<<65, 66>>)>>, <<"service_type", Null>>,
     <<"service_type", S(Rep(6, 65))>>, <<"service_type", S(<<65, 0, 66>>)>>,
     <<"service_type", S(<<200>>)>>,
     <<"source_addr", S(Rep(20, 49))>>, <<"source_addr", S(Rep(21, 49))>>,
     <<"source_addr_ton", En("ALPHANUMERIC")>>, <<"source_addr_ton", Null>>,
     <<"source_addr_ton", En("BOGUS")>>,
     <<"esm_class", EsmClass("STORE_AND_FORWARD", "SMSC_DELIVERY_RECEIPT",
                             {"UDHI_INDICATOR_SET", "SET_REPLY_PATH"})>>,
     <<"esm_class", EsmClass("DEFAULT", "BOGUS", {})>>, <<"esm_class", Null>>,
     <<"protocol_id", I(255)>>, <<"protocol_id", I(256)>>, <<"protocol_id", Null>>,
     <<"priority_flag", En("LEVEL_3")>>,
     <<"schedule_delivery_time", Tm(Time1)>>, <<"validity_period", Tm(TimeR)>>,
     <<"registered_delivery",
       RegisteredDelivery("SMSC_DELIVERY_RECEIPT_REQUESTED",
                          {"SME_DELIVERY_ACK_REQUESTED", "SME_MANUAL_ACK_REQUESTED"}, TRUE)>>,
     <<"data_coding", DataCoding("RAW", I(0))>>, <<"data_coding", DataCoding("RAW", I(48))>>,
     <<"data_coding", DataCoding("RAW", I(245))>>, <<"data_coding", DataCoding("DEFAULT", En("UCS2"))>>,
     <<"data_coding", DataCoding("GSM_MESSAGE_CLASS", DataCodingGsmMsg("DATA_8BIT", "CLASS_2"))>>,
     <<"sm_default_msg_id", I(0)>>, <<"sm_default_msg_id", I(1)>>,
     <<"sm_default_msg_id", I(254)>>, <<"sm_default_msg_id", I(255)>>,
     <<"short_message", Null>>, <<"short_message", B(<<>>)>>,
     <<"short_message", B(Rep(254, 7))>>, <<"short_message", B(Rep(255, 7))>>}

\* optional params of a submit_sm or deliver_sm
OptionChoices ==
    {<<"message_payload", B(<<1, 2>>)>>, <<"message_payload", B(<<>>)>>,
     <<"message_payload", Null>>,
     <<"sms_signal", B(<<9>>)>>,
     <<"source_subaddress", Subaddress(En("USER_SPECIFIED"), <<5, 6>>)>>,
     <<"source_subaddress", Subaddress(En("USER_SPECIFIED"), <<>>)>>,
     <<"dest_subaddress", Subaddress(En("NSAP_EVEN"), <<5>>)>>,
     <<"callback_num", CallbackNum(En("ASCII"), En("UNKNOWN"), En("ISDN"), <<49>>)>>,
     <<"callback_num", CallbackNum(En("ASCII"), Null, En("ISDN"), <<>>)>>,
     <<"user_message_reference", I(258)>>, <<"user_message_reference", Null>>,
     <<"number_of_messages", I(99)>>, <<"number_of_messages", I(100)>>,
     <<"privacy_indicator", En("SECRET")>>,
     <<"alert_on_message_delivery", Null>>,
     <<"message_state", En("DELIVERED")>>,
     <<"receipted_message_id", S(<<105, 100>>)>>,
     <<"ms_validity", I(1)>>,
     <<"not_a_param", I(1)>>}

Choice(c) == c[1] :> c[2]

SmParamSets ==
    {BaseSmParams}
    \cup {Choice(c) @@ BaseSmParams : c \in SmParamChoices}
    \cup {Choice(c) @@ BaseSmParams : c \in OptionChoices}
    \cup {Choice(c) @@ Choice(d) @@ BaseSmParams :
            c \in {o \in OptionChoices : o[1] = "message_payload"},
            d \in {o \in OptionChoices : o[1] # "message_payload"}}
    \cup {[n \in (DOMAIN BaseSmParams) \ {"short_message"} |-> BaseSmParams[n]]}

RespStatuses == {"ESME_ROK", "ESME_RSYSERR"}

PDUs ==
    {PDU("enquire_link", sn, st, ps) :
        sn \in {Null, I(0), I(1), I(2)}, st \in RespStatuses \cup {"ESME_BOGUS"},
        ps \in {EmptyParams, "not_a_param" :> I(1)}}
    \cup {PDU(id, I(1), st, ps) :
            id \in {"submit_sm_resp", "deliver_sm_resp"}, st \in RespStatuses,
            ps \in {EmptyParams} \cup
                   {"message_id" :> v :
                        v \in {Null, S(<<>>), S(<<65>>), S(Rep(64, 65)), S(Rep(65, 65))}}}
    \cup {PDU("bind_transmitter_resp", I(1), st, ps) :
            st \in RespStatuses,
            ps \in {EmptyParams, "system_id" :> S(<<65>>), "system_id" :> Null,
                    ("system_id" :> S(<<65>>)) @@ ("sc_interface_version" :> I(52)),
                    ("system_id" :> S(<<65>>)) @@ ("sc_interface_version" :> Null)}}
    \cup {PDU("query_sm_resp", I(1), "ESME_ROK",
              [message_id |-> S(<<65>>), final_date |-> fd, message_state |-> ms,
               error_code |-> ec]) :
            fd \in {Null, Tm(Time1)}, ms \in {En("DELIVERED"), Null},
            ec \in {Null, I(0), I(5)}}
    \cup {PDU(id, I(1), "ESME_ROK", ps) : id \in {"submit_sm", "deliver_sm"}, ps \in SmParamSets}


(***************************************************************************)
(* The byte strings given to decode                                        *)
(***************************************************************************)
\* most TLVs in the body of one input
MaxTlvs == 2

WireHeader(len, id, status, sn) ==
    Pack(4, len) \o Pack(2, id[1]) \o Pack(2, id[2]) \o Pack(4, status) \o Pack(4, sn)

WireTlv(tag, len, value) == Pack(2, tag) \o Pack(2, len) \o value

\* a command_id on the wire that is no command of the registry (9 below is no
\* command_status of it either)
UnknownCommandId == <<0, 99>>

HeaderWires ==
    {WireHeader(len, id, status, sn) :
        len \in {0, 15, 16, 17},
        id \in {command_id_name_map["enquire_link"], command_id_name_map["submit_sm_resp"],
                UnknownCommandId},
        status \in {0, 8, 9},
        sn \in {0, 1}}
    \cup {<<>>, <<0, 0, 0, 16, 0, 0>>, Rep(15, 0)}

RespBodies ==
    {<<>>, <<0>>, <<65, 0>>, <<65>>, <<200, 0>>, <<65, 0, 66, 0>>, Rep(64, 65) \o <<0>>,
     Rep(65, 65) \o <<0>>, <<65, 0, 2, 16, 0, 1, 52>>, <<65, 0, 2, 16, 0, 2, 52>>,
     <<65, 0, 2, 16, 0, 1, 52, 2, 16, 0, 1, 53>>}

RespWires ==
    {WireHeader(HEADER_LEN + Len(b) + d, command_id_name_map[id], status, 1) \o b :
        id \in {"submit_sm_resp", "deliver_sm_resp", "bind_transmitter_resp"},
        status \in {0, 8}, b \in RespBodies, d \in {0, 1}}
    \cup {WireHeader(HEADER_LEN + Len(b), command_id_name_map["query_sm_resp"], 0, 1) \o b :
            b \in {<<65, 0, 0, 2, 0>>, <<65, 0, 0, 2, 5>>, <<65, 0, 0, 0, 0>>,
                   <<65, 0>> \o smpp_time_unparse(Time1) \o <<0, 9, 0>>}}

\* the mandatory fields of BaseSmParams on the wire
BaseSmFields ==
    <<(<<0>>), <<0>>, <<0>>, <<49, 0>>, <<1>>, <<1>>, <<50, 0>>, <<0>>, <<0>>, <<0>>, <<0>>,
      <<0>>, <<0>>, <<0>>, <<0>>, <<0>>, <<2, 72, 105>> >>

\* one mandatory field (by its index) of a submit_sm or deliver_sm body set to other bytes
SmFieldChoices ==
    {<<1, <<65, 66, 0>> >>, <<1, Rep(5, 65) \o <<0>> >>, <<1, Rep(6, 65) \o <<0>> >>,
     <<1, <<200, 0>> >>,
     <<2, <<5>> >>, <<2, <<7>> >>,
     <<4, Rep(20, 49) \o <<0>> >>, <<4, Rep(21, 49) \o <<0>> >>,
     <<8, <<199>> >>, <<8, <<60>> >>,
     <<9, <<255>> >>,
     <<10, <<3>> >>, <<10, <<4>> >>,
     <<11, smpp_time_unparse(Time1) \o <<0>> >>, <<11, <<65, 0>> >>,
     <<11, Rep(17, 48) \o <<0>> >>,
     <<12, smpp_time_unparse(TimeR) \o <<0>> >>, <<12, <<65, 0>> >>,
     <<12, Rep(17, 48) \o <<0>> >>,
     <<13, <<29>> >>, <<13, <<32>> >>, <<13, <<3>> >>,
     <<15, <<245>> >>, <<15, <<253>> >>, <<15, <<8>> >>, <<15, <<15>> >>, <<15, <<48>> >>,
     <<16, <<1>> >>, <<16, <<255>> >>,
     <<17, <<0>> >>, <<17, <<3, 1>> >>, <<17, <<255>> \o Rep(255, 7)>>}

RECURSIVE Concat(_)
Concat(seqs) == IF seqs = <<>> THEN <<>> ELSE Head(seqs) \o Concat(Tail(seqs))

SmBodies ==
    {Concat(BaseSmFields)}
    \cup {Concat([BaseSmFields EXCEPT ![c[1]] = c[2]]) : c \in SmFieldChoices}

\* TLVs: well-formed ones, and ones with a wrong length, an unknown tag, a
\* tag without a codec, or a value its codec rejects
WireTlvs ==
    {WireTlv(tag_name_map["message_payload"], 2, <<1, 2>>),
     WireTlv(tag_name_map["message_payload"], 0, <<>>),
     WireTlv(tag_name_map["message_payload"], 3, <<1, 2>>),
     WireTlv(tag_name_map["sms_signal"], 1, <<9>>),
     WireTlv(tag_name_map["user_message_reference"], 2, <<1, 2>>),
     WireTlv(tag_name_map["number_of_messages"], 1, <<99>>),
     WireTlv(tag_name_map["number_of_messages"], 1, <<200>>),
     WireTlv(tag_name_map["number_of_messages"], 2, <<1, 2>>),
     WireTlv(tag_name_map["privacy_indicator"], 1, <<9>>),
     WireTlv(tag_name_map["source_subaddress"], 3, <<160, 5, 6>>),
     WireTlv(tag_name_map["source_subaddress"], 1, <<160>>),
     WireTlv(tag_name_map["callback_num"], 4, <<1, 0, 1, 49>>),
     WireTlv(tag_name_map["callback_num"], 2, <<1, 0>>),
     WireTlv(tag_name_map["alert_on_message_delivery"], 0, <<>>),
     WireTlv(tag_name_map["receipted_message_id"], 3, <<105, 100, 0>>),
     WireTlv(tag_name_map["ms_validity"], 1, <<1>>),
     WireTlv(65535, 1, <<1>>)}

\* the TLVs that the streams of several TLVs are made of
SeqTlvs ==
    {WireTlv(tag_name_map["message_payload"], 2, <<1, 2>>),
     WireTlv(tag_name_map["message_payload"], 3, <<1, 2>>),
     WireTlv(tag_name_map["user_message_reference"], 2, <<1, 2>>),
     WireTlv(tag_name_map["number_of_messages"], 1, <<200>>),
     WireTlv(tag_name_map["privacy_indicator"], 1, <<9>>),
     WireTlv(tag_name_map["source_subaddress"], 3, <<160, 5, 6>>),
     WireTlv(tag_name_map["alert_on_message_delivery"], 0, <<>>),
     WireTlv(65535, 1, <<1>>)}

RECURSIVE TlvSeqs(_)
TlvSeqs(n) ==
    IF n = 0 THEN {<<>>}
    ELSE TlvSeqs(n - 1) \cup {t \o ts : t \in SeqTlvs, ts \in TlvSeqs(n - 1)}

SmWires ==
    {WireHeader(HEADER_LEN + Len(b) + d, command_id_name_map[id], 0, 1) \o b :
        id \in {"submit_sm", "deliver_sm"}, b \in SmBodies, d \in {0, 1}}
    \cup {WireHeader(HEADER_LEN + Len(Concat(BaseSmFields)) + Len(ts), command_id_name_map[id], 0, 1)
            \o Concat(BaseSmFields) \o ts :
            id \in {"submit_sm", "deliver_sm"}, ts \in WireTlvs \cup TlvSeqs(MaxTlvs)}
    \cup {WireHeader(HEADER_LEN + Len(Concat(BaseSmFields)) + 70, command_id_name_map["deliver_sm"], 0, 1)
            \o Concat(BaseSmFields)
            \o WireTlv(tag_name_map["receipted_message_id"], 66, Rep(65, 65) \o <<0>>)}

\* two PDUs one after the other in one stream
StreamWires ==
    {a \o b :
        a \in {WireHeader(16, command_id_name_map["enquire_link"], 0, 1),
               WireHeader(18, command_id_name_map["submit_sm_resp"], 0, 2) \o <<65, 0>>,
               WireHeader(17, command_id_name_map["submit_sm_resp"], 0, 2) \o <<65, 0>>},
        b \in {WireHeader(16, command_id_name_map["enquire_link"], 0, 3),
               WireHeader(17, command_id_name_map["deliver_sm_resp"], 0, 4) \o <<0>>,
               WireHeader(16, command_id_name_map["submit_sm_resp"], 8, 5)}}

Wires == HeaderWires \cup RespWires \cup SmWires \cup StreamWires


(***************************************************************************)
(* The state machine: one PDUEncoder instance and its caller.              *)
(*   length      OptionEncoder.length of the instance                      *)
(*   pc          where the caller is: idle, or holding the result of an    *)
(*               encode ("encoded") or of a decode ("decoded")             *)
(*   via         how the held result came about: "call" (on an input),     *)
(*               "roundtrip" (decode of the bytes encode returned for arg) *)
(*               or "reencode" (encode of the PDU decode returned)         *)
(*   arg, out    the PDU given to encode, and what encode returned         *)
(*   file, start, pos   the stream, the cursor before the last decode and  *)
(*               the cursor now                                            *)
(*   res         what decode returned                                      *)
(***************************************************************************)
NoOut == [ok |-> FALSE, bytes |-> <<>>, err |-> "none"]
NoRes == [ok |-> FALSE, val |-> Null, pos |-> 0, cls |-> "none", status |-> ""]

Init ==
    /\ codec = "PDUEncoder"
    /\ length = NoLength
    /\ pc = "idle"
    /\ via = ""
    /\ arg = Null
    /\ out = NoOut
    /\ file = <<>>
    /\ start = 0
    /\ pos = 0
    /\ res = NoRes

\* encoder.encode(p)
Encode(p) ==
    /\ pc = "idle"
    /\ pc' = "encoded"
    /\ via' = "call"
    /\ arg' = p
    /\ out' = PDUEncode(p, length)
    /\ UNCHANGED <<codec, length, file, start, pos, res>>

\* the decode at the cursor p of the stream f
DecodeAt(f, p) ==
    \E d \in {PDUDecode(f, p, length)} :
        /\ file' = f
        /\ start' = p
        /\ pos' = d.r.pos
        /\ res' = d.r
        /\ length' = d.length
        /\ pc' = "decoded"

\* encoder.decode(io.BytesIO(b))
Decode(b) ==
    /\ pc = "idle"
    /\ DecodeAt(b, 0)
    /\ via' = "call"
    /\ UNCHANGED <<codec, arg, out>>

\* encoder.decode(io.BytesIO(encoder.encode(p)))
DecodeEncoded ==
    /\ pc = "encoded"
    /\ via = "call"
    /\ out.ok
    /\ DecodeAt(out.bytes, 0)
    /\ via' = "roundtrip"
    /\ UNCHANGED <<codec, arg, out>>

\* encoder.decode(file) again on a stream that holds more bytes
DecodeNext ==
    /\ pc = "decoded"
    /\ via = "call"
    /\ res.ok
    /\ pos < Len(file)
    /\ DecodeAt(file, pos)
    /\ UNCHANGED <<codec, via, arg, out>>

\* encoder.encode(encoder.decode(file))
ReEncode ==
    /\ pc = "decoded"
    /\ via = "call"
    /\ res.ok
    /\ pc' = "encoded"
    /\ via' = "reencode"
    /\ arg' = res.val
    /\ out' = PDUEncode(res.val, length)
    /\ UNCHANGED <<codec, length, file, start, pos, res>>

\* the caller drops what it holds; the instance keeps its state
Return ==
    /\ pc # "idle"
    /\ pc' = "idle"
    /\ via' = ""
    /\ arg' = Null
    /\ out' = NoOut
    /\ file' = <<>>
    /\ start' = 0
    /\ pos' = 0
    /\ res' = NoRes
    /\ UNCHANGED <<codec, length>>

Next ==
    \/ \E p \in PDUs : Encode(p)
    \/ \E b \in Wires : Decode(b)
    \/ DecodeEncoded
    \/ DecodeNext
    \/ ReEncode
    \/ Return

Spec == Init /\ [][Next]_vars


(***************************************************************************)
(* One field codec on its own: a COctetStringEncoder constructed with a    *)
(* maxSize, a decodeErrorClass and a decode_error_status, whose encode and *)
(* decode are called with values and with streams of a few bytes.          *)
(***************************************************************************)
MaxFieldLen == 4

\* a terminator, an ASCII letter and a byte that is not ASCII
FieldBytes == {0, 65, 200}

RECURSIVE SeqsUpTo(_, _)
SeqsUpTo(set, n) ==
    IF n = 0 THEN {<<>>}
    ELSE SeqsUpTo(set, n - 1) \cup {<<x>> \o ss : x \in set, ss \in SeqsUpTo(set, n - 1)}

FieldCodecs ==
    {[COctetStringEncoder(m, FALSE, FALSE, status) EXCEPT !.cls = cls] :
        m \in 1..MaxFieldLen,
        cls \in {"PDUParseError", "PDUCorruptError"},
        status \in {"ESME_RUNKNOWNERR", "ESME_RSYSERR"}}

FieldValues == {Null} \cup {S(chars) : chars \in SeqsUpTo(FieldBytes, MaxFieldLen)}

FieldStreams ==
    SeqsUpTo(FieldBytes, MaxFieldLen) \cup {b \o <<0>> : b \in SeqsUpTo(FieldBytes, MaxFieldLen)}

InitField ==
    /\ codec \in FieldCodecs
    /\ length = NoLength
    /\ pc = "idle"
    /\ via = ""
    /\ arg = Null
    /\ out = NoOut
    /\ file = <<>>
    /\ start = 0
    /\ pos = 0
    /\ res = NoRes

\* codec.encode(v)
EncodeField(v) ==
    /\ pc = "idle"
    /\ pc' = "encoded"
    /\ via' = "call"
    /\ arg' = v
    /\ out' = FieldEncode(codec, v, length)
    /\ UNCHANGED <<codec, length, file, start, pos, res>>

\* codec.decode(io.BytesIO(b))
DecodeField(b) ==
    /\ pc = "idle"
    /\ pc' = "decoded"
    /\ via' = "call"
    /\ file' = b
    /\ start' = 0
    /\ res' = FieldDecode(codec, b, 0, length)
    /\ pos' = res'.pos
    /\ UNCHANGED <<codec, length, arg, out>>

NextField ==
    \/ \E v \in FieldValues : EncodeField(v)
    \/ \E b \in FieldStreams : DecodeField(b)
    \/ Return

SpecField == InitField /\ [][NextField]_vars


(***************************************************************************)
(* One OptionEncoder on its own: encode is called with Options and decode  *)
(* with streams that hold one TLV, whole or cut short, and perhaps bytes   *)
(* after it.  self.length lives on from call to call.                      *)
(***************************************************************************)
OptionValues == {Option(c[1], c[2]) : c \in OptionChoices}

OptionStreams ==
    WireTlvs
    \cup {t \o <<7, 7>> : t \in SeqTlvs}
    \cup {WireTlv(tag_name_map["receipted_message_id"], 66, Rep(65, 65) \o <<0>>),
          WireTlv(tag_name_map["receipted_message_id"], 3, <<105, 200, 0>>),
          WireTlv(tag_name_map["receipted_message_id"], 2, <<105, 100, 0>>),
          WireTlv(tag_name_map["callback_num"], 3, <<1, 9, 1>>),
          WireTlv(tag_name_map["source_subaddress"], 2, <<7, 5>>),
          WireTlv(tag_name_map["user_message_reference"], 1, <<1, 2>>),
          WireTlv(tag_name_map["user_message_reference"], 3, <<1, 2, 3>>),
          WireTlv(tag_name_map["alert_on_message_delivery"], 1, <<1>>),
          WireTlv(tag_name_map["message_payload"], 4, <<1, 2>>),
          WireTlv(tag_name_map["message_state"], 1, <<0>>),
          WireTlv(tag_name_map["message_state"], 1, <<77>>),
          WireTlv(tag_name_map["dest_addr_subunit"], 1, <<0>>),
          WireTlv(tag_name_map["dest_bearer_type"], 1, <<99>>),
          WireTlv(tag_name_map["language_indicator"], 1, <<99>>),
          WireTlv(tag_name_map["ms_validity"], 0, <<>>),
          WireTlv(0, 1, <<1>>),
          <<>>, <<2>>, <<2, 4>>, <<2, 4, 0>>}

InitOption ==
    /\ codec = "OptionEncoder"
    /\ length = NoLength
    /\ pc = "idle"
    /\ via = ""
    /\ arg = Null
    /\ out = NoOut
    /\ file = <<>>
    /\ start = 0
    /\ pos = 0
    /\ res = NoRes

\* OptionEncoder().encode(o)
EncodeOption(o) ==
    /\ pc = "idle"
    /\ pc' = "encoded"
    /\ via' = "call"
    /\ arg' = o
    /\ out' = OptionEncode(o, length)
    /\ UNCHANGED <<codec, length, file, start, pos, res>>

\* the decode of one TLV at the start of the stream f
DecodeOptionAt(f) ==
    \E d \in {OptionDecode(f, 0, length)} :
        /\ file' = f
        /\ start' = 0
        /\ pos' = d.r.pos
        /\ res' = d.r
        /\ length' = d.length
        /\ pc' = "decoded"

\* encoder.decode(io.BytesIO(b))
DecodeOption(b) ==
    /\ pc = "idle"
    /\ DecodeOptionAt(b)
    /\ via' = "call"
    /\ UNCHANGED <<codec, arg, out>>

\* encoder.decode(io.BytesIO(encoder.encode(o)))
DecodeEncodedOption ==
    /\ pc = "encoded"
    /\ via = "call"
    /\ out.ok
    /\ DecodeOptionAt(out.bytes)
    /\ via' = "roundtrip"
    /\ UNCHANGED <<codec, arg, out>>

NextOption ==
    \/ \E o \in OptionValues : EncodeOption(o)
    \/ \E b \in OptionStreams : DecodeOption(b)
    \/ DecodeEncodedOption
    \/ Return

SpecOption == InitOption /\ [][NextOption]_vars


(***************************************************************************)
(* The User Data Header codec of gsm_encoding.py.                          *)
(*                                                                         *)
(* smpp.pdu.gsm_constants: the registry of information element            *)
(* identifiers, each with its value, whether it may be repeated and the    *)
(* identifiers it excludes.                                                *)
(***************************************************************************)
information_element_identifier_name_map ==
    [CONCATENATED_SM_8BIT_REF_NUM |-> 0,
     SPECIAL_SMS_MESSAGE_INDICATION |-> 1,
     APPLICATION_PORT_ADDRESSING_SCHEME_8BIT_ADDRESS |-> 4,
     APPLICATION_PORT_ADDRESSING_SCHEME_16BIT_ADDRESS |-> 5,
     SMSC_CONTROL_PARAMS |-> 6,
     UDH_SOURCE_INDICATOR |-> 7,
     CONCATENATED_SM_16BIT_REF_NUM |-> 8]

information_element_identifier_full_value_map ==
    (0 :> [repeatable |-> FALSE, excludes |-> {"CONCATENATED_SM_16BIT_REF_NUM"}])
    @@ (1 :> [repeatable |-> TRUE, excludes |-> {}])
    @@ (4 :> [repeatable |-> FALSE,
              excludes |-> {"APPLICATION_PORT_ADDRESSING_SCHEME_16BIT_ADDRESS"}])
    @@ (5 :> [repeatable |-> FALSE,
              excludes |-> {"APPLICATION_PORT_ADDRESSING_SCHEME_8BIT_ADDRESS"}])
    @@ (6 :> [repeatable |-> FALSE, excludes |-> {}])
    @@ (7 :> [repeatable |-> TRUE, excludes |-> {}])
    @@ (8 :> [repeatable |-> FALSE, excludes |-> {"CONCATENATED_SM_8BIT_REF_NUM"}])

\* gsm_types.InformationElement and gsm_types.IEConcatenatedSM
InformationElement(identifier, data) == [identifier |-> identifier, data |-> data]
IEConcatenatedSM(referenceNum, maximumNum, sequenceNum) ==
    [t |-> "concatenated_sm",
     v |-> [referenceNum |-> referenceNum, maximumNum |-> maximumNum,
            sequenceNum |-> sequenceNum]]

\* Int8Encoder.encode and Int16Encoder.encode: struct.pack refuses a value out of range
Int8Encode(value) == IF value \notin 0..255 THEN EFail("struct.error") ELSE EOk(Pack(1, value))
Int16Encode(value) ==
    IF value \notin 0..65535 THEN EFail("struct.error") ELSE EOk(Pack(2, value))

\* Int8Encoder.decode and Int16Encoder.decode
IntNDecode(f, p, size) ==
    LET Unpacked(bytes) == IF ~bytes.ok THEN bytes ELSE Ok(Unpack(bytes.val), bytes.pos)
    IN  Unpacked(Read(f, p, size))

Int8Decode(f, p) == IntNDecode(f, p, 1)
Int16Decode(f, p) == IntNDecode(f, p, 2)

\* InformationElementIdentifierEncoder.encode
InformationElementIdentifierEncode(value) ==
    IF value \notin DOMAIN information_element_identifier_name_map THEN EFail("ValueError")
    ELSE Int8Encode(information_element_identifier_name_map[value])

\* InformationElementIdentifierEncoder.decode
InformationElementIdentifierDecode(f, p) ==
    LET Named(int_val) ==
            IF ~int_val.ok THEN int_val
            ELSE IF int_val.val \notin DOMAIN ValueMap(information_element_identifier_name_map)
            THEN Fail("UDHInformationElementIdentifierUnknownError", "", int_val.pos)
            ELSE Ok(ValueMap(information_element_identifier_name_map)[int_val.val],
                    int_val.pos)
    IN  Named(Int8Decode(f, p))

\* IEConcatenatedSMEncoder.encode
IEConcatenatedSMEncode(is16bitRefNum, cms) ==
    IF cms = Null \/ cms.t # "concatenated_sm" THEN EFail("AttributeError")
    ELSE EThen(EThen(IF is16bitRefNum THEN Int16Encode(cms.v.referenceNum)
                     ELSE Int8Encode(cms.v.referenceNum),
                     Int8Encode(cms.v.maximumNum)),
               Int8Encode(cms.v.sequenceNum))

\* IEConcatenatedSMEncoder.decode
IEConcatenatedSMDecode(is16bitRefNum, f, p) ==
    LET Seq_(ref_num, max_num, seq_num) ==
            IF ~seq_num.ok THEN seq_num
            ELSE Ok(IEConcatenatedSM(ref_num.val, max_num.val, seq_num.val), seq_num.pos)
        Max(ref_num, max_num) ==
            IF ~max_num.ok THEN max_num
            ELSE Seq_(ref_num, max_num, Int8Decode(f, max_num.pos))
        Ref(ref_num) ==
            IF ~ref_num.ok THEN ref_num ELSE Max(ref_num, Int8Decode(f, ref_num.pos))
    IN  Ref(IF is16bitRefNum THEN Int16Decode(f, p) ELSE Int8Decode(f, p))

\* InformationElementEncoder.dataEncoders: is16bitRefNum of the sub-codec, by identifier
dataEncoders ==
    [CONCATENATED_SM_8BIT_REF_NUM |-> FALSE, CONCATENATED_SM_16BIT_REF_NUM |-> TRUE]

\* InformationElementEncoder.encode
InformationElementEncode(iElement) ==
    LET Join(data_bytes) ==
            IF ~data_bytes.ok THEN data_bytes
            ELSE EThen(EThen(InformationElementIdentifierEncode(iElement.identifier),
                             Int8Encode(Len(data_bytes.bytes))),
                       data_bytes)
    IN  Join(IF iElement.identifier \in DOMAIN dataEncoders
             THEN IEConcatenatedSMEncode(dataEncoders[iElement.identifier], iElement.data)
             ELSE IF iElement.data = Null \/ iElement.data.t # "bytes" THEN EFail("TypeError")
             ELSE EOk(iElement.data.v))

\* InformationElementEncoder.decode without the try/except around the identifier
InformationElementDecodeStrict(f, p) ==
    LET Element(id, length_, data) ==
            IF ~data.ok THEN data
            ELSE IF data.pos - p # length_.val + 2 THEN Fail("UDHParseError", "", data.pos)
            ELSE Ok(InformationElement(id.val, data.val), data.pos)
        Data(bytes) == IF ~bytes.ok THEN bytes ELSE Ok(B(bytes.val), bytes.pos)
        Length(id, length_) ==
            IF ~length_.ok THEN length_
            ELSE Element(id, length_,
                         IF id.val \in DOMAIN dataEncoders
                         THEN IEConcatenatedSMDecode(dataEncoders[id.val], f, length_.pos)
                         ELSE IF length_.val > 0 THEN Data(Read(f, length_.pos, length_.val))
                         ELSE Ok(Null, length_.pos))
        Identifier(id) ==
            IF ~id.ok THEN id
            ELSE Length(id, Int8Decode(f, id.pos))
    IN  Identifier(InformationElementIdentifierDecode(f, p))

\* InformationElementEncoder.decode; the value is Null where it returns None.
\* id is what the identifier codec did: identifier stays None where it failed
\* with UDHInformationElementIdentifierUnknownError.
InformationElementDecode(f, p) ==
    LET Element(id, length_, data) ==
            IF ~data.ok THEN data
            ELSE IF data.pos - p # length_.val + 2 THEN Fail("UDHParseError", "", data.pos)
            ELSE IF ~id.ok THEN Ok(Null, data.pos)
            ELSE Ok(InformationElement(id.val, data.val), data.pos)
        Data(bytes) == IF ~bytes.ok THEN bytes ELSE Ok(B(bytes.val), bytes.pos)
        Length(id, length_) ==
            IF ~length_.ok THEN length_
            ELSE Element(id, length_,
                         IF id.ok /\ id.val \in DOMAIN dataEncoders
                         THEN IEConcatenatedSMDecode(dataEncoders[id.val], f, length_.pos)
                         ELSE IF length_.val > 0 THEN Data(Read(f, length_.pos, length_.val))
                         ELSE Ok(Null, length_.pos))
        Identifier(id) ==
            IF ~id.ok /\ id.cls # "UDHInformationElementIdentifierUnknownError" THEN id
            ELSE Length(id, Int8Decode(f, id.pos))
    IN  Identifier(InformationElementIdentifierDecode(f, p))

\* UserDataHeaderEncoder.is_identifier_repeatable
is_identifier_repeatable(identifier) ==
    information_element_identifier_full_value_map[
        information_element_identifier_name_map[identifier]].repeatable

\* UserDataHeaderEncoder.get_identifier_exclusion_list
get_identifier_exclusion_list(identifier) ==
    information_element_identifier_full_value_map[
        information_element_identifier_name_map[identifier]].excludes

\* UserDataHeaderEncoder.encode: the loop, without the check of the exclusion lists
RECURSIVE encodeElementsNoExclusion(_, _, _)
encodeElementsNoExclusion(udh, i, nonRepeatable) ==
    IF i > Len(udh) THEN EOk(<<>>)
    ELSE IF udh[i].identifier \notin DOMAIN information_element_identifier_name_map
    THEN EFail("KeyError")
    ELSE IF is_identifier_repeatable(udh[i].identifier)
    THEN EThen(InformationElementEncode(udh[i]),
               encodeElementsNoExclusion(udh, i + 1, nonRepeatable))
    ELSE IF udh[i].identifier \in nonRepeatable THEN EFail("ValueError")
    ELSE EThen(InformationElementEncode(udh[i]),
               encodeElementsNoExclusion(udh, i + 1, nonRepeatable \cup {udh[i].identifier}))

\* UserDataHeaderEncoder.encode: the loop over udh from its i-th element on,
\* with the keys of nonRepeatable; what it adds to iEBytes
RECURSIVE encodeElements(_, _, _)
encodeElements(udh, i, nonRepeatable) ==
    IF i > Len(udh) THEN EOk(<<>>)
    ELSE IF udh[i].identifier \notin DOMAIN information_element_identifier_name_map
    THEN EFail("KeyError")
    ELSE IF is_identifier_repeatable(udh[i].identifier)
    THEN EThen(InformationElementEncode(udh[i]), encodeElements(udh, i + 1, nonRepeatable))
    ELSE IF udh[i].identifier \in nonRepeatable THEN EFail("ValueError")
    ELSE IF get_identifier_exclusion_list(udh[i].identifier) \cap nonRepeatable # {}
    THEN EFail("ValueError")
    ELSE EThen(InformationElementEncode(udh[i]),
               encodeElements(udh, i + 1, nonRepeatable \cup {udh[i].identifier}))

\* UserDataHeaderEncoder.encode with a length byte that wraps at 256
UserDataHeaderEncodeWrapped(udh) ==
    LET WithLength_(iEBytes) ==
            IF ~iEBytes.ok THEN iEBytes
            ELSE EOk(<<Len(iEBytes.bytes) % 256>> \o iEBytes.bytes)
    IN  WithLength_(encodeElements(udh, 1, {}))

\* UserDataHeaderEncoder.encode
UserDataHeaderEncode(udh) ==
    LET WithLength_(iEBytes) ==
            IF ~iEBytes.ok THEN iEBytes ELSE EThen(Int8Encode(Len(iEBytes.bytes)), iEBytes)
    IN  WithLength_(encodeElements(udh, 1, {}))

\* an assignment that moves a key already there to the end of the dict
SetItemLast(non_repeatable, iElement) ==
    LET Others(e) == e.identifier # iElement.identifier
    IN  Append(SelectSeq(non_repeatable, Others), iElement)

\* non_repeatable[iElement.identifier] = iElement on a dict kept as the sequence
\* of its values in insertion order: a key already there keeps its place
SetItem(non_repeatable, iElement) ==
    IF \E i \in 1..Len(non_repeatable) : non_repeatable[i].identifier = iElement.identifier
    THEN [i \in 1..Len(non_repeatable) |->
            IF non_repeatable[i].identifier = iElement.identifier THEN iElement
            ELSE non_repeatable[i]]
    ELSE Append(non_repeatable, iElement)

\* del non_repeatable[identifier] for every identifier of the list that is a key
DelItems(non_repeatable, identifiers) ==
    LET Kept(e) == e.identifier \notin identifiers
    IN  SelectSeq(non_repeatable, Kept)

\* UserDataHeaderEncoder.decode: the loop, without the deletion of the excluded elements
RECURSIVE decodeElementsKeepExcluded(_, _, _, _, _)
decodeElementsKeepExcluded(f, p, header_len, repeatable, non_repeatable) ==
    LET Step(iElement) ==
            IF ~iElement.ok THEN iElement
            ELSE IF iElement.val = Null
            THEN decodeElementsKeepExcluded(f, iElement.pos, header_len, repeatable,
                                            non_repeatable)
            ELSE IF is_identifier_repeatable(iElement.val.identifier)
            THEN decodeElementsKeepExcluded(f, iElement.pos, header_len,
                                            Append(repeatable, iElement.val), non_repeatable)
            ELSE decodeElementsKeepExcluded(f, iElement.pos, header_len, repeatable,
                                            SetItem(non_repeatable, iElement.val))
    IN  IF ~(p < header_len + 1) THEN Ok(repeatable \o non_repeatable, p)
        ELSE Step(InformationElementDecode(f, p))

\* UserDataHeaderEncoder.decode: the while loop, with the cursor at p
RECURSIVE decodeElements(_, _, _, _, _)
decodeElements(f, p, header_len, repeatable, non_repeatable) ==
    LET Step(iElement) ==
            IF ~iElement.ok THEN iElement
            ELSE IF iElement.val = Null
            THEN decodeElements(f, iElement.pos, header_len, repeatable, non_repeatable)
            ELSE IF is_identifier_repeatable(iElement.val.identifier)
            THEN decodeElements(f, iElement.pos, header_len,
                                Append(repeatable, iElement.val), non_repeatable)
            ELSE decodeElements(f, iElement.pos, header_len, repeatable,
                                DelItems(SetItem(non_repeatable, iElement.val),
                                         get_identifier_exclusion_list(
                                             iElement.val.identifier)))
    IN  IF ~(p < header_len + 1) THEN Ok(repeatable \o non_repeatable, p)
        ELSE Step(InformationElementDecode(f, p))

\* UserDataHeaderEncoder.decode
UserDataHeaderDecode(f, p) ==
    LET Elements(header_len) ==
            IF ~header_len.ok THEN header_len
            ELSE decodeElements(f, header_len.pos, header_len.val, <<>>, <<>>)
    IN  Elements(Int8Decode(f, p))


(***************************************************************************)
(* One UserDataHeaderEncoder and its caller: encode is called with lists   *)
(* of information elements and decode with streams that hold a length byte *)
(* and information elements.                                               *)
(***************************************************************************)
\* most information elements in one list or one stream
MaxIes == 3

\* structured and opaque elements, repeatable and not, with empty data, with
\* data so long that two of them pass 255 bytes, and with a reference number
\* that does not fit its byte
Ies ==
    {InformationElement("CONCATENATED_SM_8BIT_REF_NUM", IEConcatenatedSM(170, 2, 1)),
     InformationElement("CONCATENATED_SM_8BIT_REF_NUM", IEConcatenatedSM(256, 2, 1)),
     InformationElement("CONCATENATED_SM_16BIT_REF_NUM", IEConcatenatedSM(258, 2, 1)),
     InformationElement("SPECIAL_SMS_MESSAGE_INDICATION", B(<<1, 2>>)),
     InformationElement("SPECIAL_SMS_MESSAGE_INDICATION", B(<<>>)),
     InformationElement("SMSC_CONTROL_PARAMS", B(<<5>>)),
     InformationElement("SMSC_CONTROL_PARAMS", B(<<6>>)),
     InformationElement("APPLICATION_PORT_ADDRESSING_SCHEME_8BIT_ADDRESS", B(<<1, 2>>)),
     InformationElement("APPLICATION_PORT_ADDRESSING_SCHEME_16BIT_ADDRESS", B(<<0, 1, 0, 2>>)),
     InformationElement("UDH_SOURCE_INDICATOR", B(Rep(126, 7)))}

Udhs == SeqsUpTo(Ies, MaxIes)

\* information elements on the wire: well-formed ones, ones with no data, ones
\* with an identifier that the registry does not hold (99), and structured ones
\* whose length byte is not what the sub-codec reads
IeWires ==
    {<<0, 3, 170, 2, 1>>, <<8, 4, 1, 2, 2, 1>>, <<1, 2, 1, 2>>, <<1, 0>>, <<6, 1, 5>>,
     <<6, 1, 6>>, <<4, 2, 1, 2>>, <<5, 4, 0, 1, 0, 2>>, <<99, 0>>, <<99, 2, 9, 9>>,
     <<0, 2, 170, 2, 1>>, <<8, 3, 1, 2, 2>>}

RECURSIVE IeStreams(_)
IeStreams(n) ==
    IF n = 0 THEN {<<>>}
    ELSE IeStreams(n - 1) \cup {x \o xs : x \in IeWires, xs \in IeStreams(n - 1)}

\* the length byte counts the bytes that follow, or one less, or one more
UdhWires ==
    {<<Len(x)>> \o x : x \in IeStreams(MaxIes)}
    \cup {<<Len(x) - 1>> \o x : x \in IeWires}
    \cup {<<Len(x) + 1>> \o x : x \in IeWires}
    \cup {<<>>}

InitUdh ==
    /\ codec = "UserDataHeaderEncoder"
    /\ length = NoLength
    /\ pc = "idle"
    /\ via = ""
    /\ arg = Null
    /\ out = NoOut
    /\ file = <<>>
    /\ start = 0
    /\ pos = 0
    /\ res = NoRes

\* UserDataHeaderEncoder().encode(u)
EncodeUdh(u) ==
    /\ pc = "idle"
    /\ pc' = "encoded"
    /\ via' = "call"
    /\ arg' = u
    /\ out' = UserDataHeaderEncode(u)
    /\ UNCHANGED <<codec, length, file, start, pos, res>>

\* the decode of the stream f with the cursor at p
DecodeUdhAt(f, p) ==
    \E d \in {UserDataHeaderDecode(f, p)} :
        /\ file' = f
        /\ start' = p
        /\ pos' = d.pos
        /\ res' = d
        /\ pc' = "decoded"

\* encoder.decode(io.BytesIO(b))
DecodeUdh(b) ==
    /\ pc = "idle"
    /\ DecodeUdhAt(b, 0)
    /\ via' = "call"
    /\ UNCHANGED <<codec, length, arg, out>>

\* encoder.decode(io.BytesIO(encoder.encode(u)))
DecodeEncodedUdh ==
    /\ pc = "encoded"
    /\ via = "call"
    /\ out.ok
    /\ DecodeUdhAt(out.bytes, 0)
    /\ via' = "roundtrip"
    /\ UNCHANGED <<codec, length, arg, out>>

\* headers that follow other bytes in their stream, and those bytes
OffsetWires == {<<Len(x)>> \o x : x \in IeStreams(2)}
Pads == {<<7>>, Rep(6, 7)}

\* file = io.BytesIO(pad + b); file.seek(len(pad)); encoder.decode(file)
DecodeUdhOffset(pad, b) ==
    /\ pc = "idle"
    /\ DecodeUdhAt(pad \o b, Len(pad))
    /\ via' = "offset"
    /\ UNCHANGED <<codec, length, arg, out>>

NextUdh ==
    \/ pc = "idle" /\ \E u \in Udhs : EncodeUdh(u)
    \/ pc = "idle" /\ \E b \in UdhWires : DecodeUdh(b)
    \/ pc = "idle" /\ \E pad \in Pads, b \in OffsetWires : DecodeUdhOffset(pad, b)
    \/ DecodeEncodedUdh
    \/ Return

SpecUdh == InitUdh /\ [][NextUdh]_vars


(***************************************************************************)
(* Properties of PDUEncoder                                                *)
(***************************************************************************)
\* the codec of a param of a command: mandatory params by name, optional ones by tag
ParamEncoder(id, name) ==
    IF name \in Range(mandatory_params[id]) THEN getRequiredParamEncoders(id)[name]
    ELSE options[name]

\* v is a value the decode of codec e can return
DecodedForm(e, v) ==
    CASE e.kind = "int" -> IF v = Null THEN e.decodeNull ELSE ~(e.decodeNull /\ v.v = 0)
      [] e.kind = "enum" -> v # Null
      [] e.kind = "c_octet_string" ->
            IF v = Null THEN e.decodeNull
            ELSE (\A i \in 1..Len(v.v) : v.v[i] # 0) /\ ~(e.decodeNull /\ v.v = <<>>)
      [] e.kind \in {"esm_class", "registered_delivery", "short_message"} -> v # Null
      [] e.kind = "data_coding" ->
            v # Null /\ (v.v.scheme = "RAW" => decodeScheme(v.v.scheme_data.v) = "RAW")
      [] e.kind = "subaddress" -> v # Null /\ Len(v.v.value) > 0
      [] e.kind = "empty" -> v = Null
      [] OTHER -> TRUE

\* the body of the PDU is left out in both directions
NoBody(id, status) == status # "ESME_ROK" /\ no_body_on_error[id]

\* p holds exactly what a decode can return: no params when the body is left
\* out, else the mandatory params and some optional ones, each in decoded form
Canonical(p) ==
    IF NoBody(p.id, p.status) THEN DOMAIN p.params = {}
    ELSE /\ DOMAIN p.params \subseteq
                Range(mandatory_params[p.id]) \cup Range(optional_params[p.id])
         /\ \A n \in DOMAIN p.params : DecodedForm(ParamEncoder(p.id, n), p.params[n])

C2_EncodeIgnoresHistory ==
    (pc = "encoded") => (out = PDUEncode(arg, NoLength))

\* the data_coding byte of the submit_sm or deliver_sm body at the cursor p
DataCodingByte(f, p, id) ==
    LET before == decodeRequiredParams(SubSeq(mandatory_params[id], 1, 14),
                                       getRequiredParamEncoders(id), f, p + HEADER_LEN, 1,
                                       EmptyParams)
    IN  f[before.pos + 1]

RegisteredDeliveryByte(f, p, id) ==
    LET before == decodeRequiredParams(SubSeq(mandatory_params[id], 1, 12),
                                       getRequiredParamEncoders(id), f, p + HEADER_LEN, 1,
                                       EmptyParams)
    IN  f[before.pos + 1]

\* a data_coding byte whose high nibble is a known scheme and whose full byte is not defined
UndefinedSchemeByte(b) ==
    /\ BitAnd(b, schemeMask) \in DOMAIN ValueMap(data_coding_scheme_name_map)
    /\ BitAnd(b, schemeDataMask) > BitOr(gsmMsgCodingMask, gsmMsgClassMask)

\* the PDU decoded last is a submit_sm or deliver_sm whose data_coding byte is undefined
C3_Excluded ==
    /\ res.val.id \in {"submit_sm", "deliver_sm"}
    /\ UndefinedSchemeByte(DataCodingByte(file, start, res.val.id))

RECURSIVE WireTags(_, _, _)
WireTags(f, p, end) ==
    IF p + 4 > end THEN <<>>
    ELSE <<Unpack(SubSeq(f, p + 1, p + 2))>>
            \o WireTags(f, p + 4 + Unpack(SubSeq(f, p + 3, p + 4)), end)

\* the index of the tag value in the optional-params list of the command
TagIndex(id, tag) ==
    CHOOSE i \in 1..Len(optional_params[id]) : tag_name_map[optional_params[id][i]] = tag

\* the TLVs of the PDU decoded last are in the order of the command's
\* optional-params list, none twice
C3_TlvsInListOrder ==
    LET id == res.val.id
        mEnd == decodeRequiredParams(mandatory_params[id], getRequiredParamEncoders(id), file,
                                     start + HEADER_LEN, 1, EmptyParams).pos
        tags == WireTags(file, mEnd, pos)
    IN  NoBody(id, res.val.status)
        \/ \A i \in 1..(Len(tags) - 1) : TagIndex(id, tags[i]) < TagIndex(id, tags[i + 1])

\* registered_delivery of the PDU decoded last has no reserved bit (5 to 7) set
C3_NoReservedBits ==
    res.val.id \in {"submit_sm", "deliver_sm"}
        => LET b == RegisteredDeliveryByte(file, start, res.val.id)
               mask == BitOr(receiptMask, BitOr(smeOriginatedAcksMask, intermediateNotificationMask))
           IN  BitAnd(b, mask) = b

BodyParts(p, len) ==
    IF NoBody(p.id, p.status) THEN <<(<<>>), <<>> >>
    ELSE <<encodeRequiredParams(mandatory_params[p.id], getRequiredParamEncoders(p.id),
                                p.params, 1, len).bytes,
           encodeOptionalParams(optional_params[p.id], p.params, 1, len).bytes>>

\* C4: the bytes encode returns are at least 16, begin with their own count
\* as a 4-byte big-endian integer, and are 16 more than the bytes of the
\* mandatory params and of the emitted TLVs together.
C4_CommandLength ==
    (pc = "encoded" /\ out.ok)
        => /\ Len(out.bytes) >= 16
           /\ Unpack(SubSeq(out.bytes, 1, 4)) = Len(out.bytes)
           /\ Len(out.bytes) = 16 + Len(BodyParts(arg, length)[1]) + Len(BodyParts(arg, length)[2])

C4_Witness ==
    /\ pc = "encoded" /\ out.ok /\ via = "call"
    /\ arg.id = "deliver_sm"
    /\ "message_payload" \in DOMAIN arg.params
    /\ Len(BodyParts(arg, length)[2]) > 0


\* the command_length, command_id, command_status and sequence_number fields
\* of the header at the cursor p
CommandLengthField(f, p) == Unpack(SubSeq(f, p + 1, p + 4))
CommandIdField(f, p) == <<Unpack(SubSeq(f, p + 5, p + 6)), Unpack(SubSeq(f, p + 7, p + 8))>>
CommandStatusField(f, p) == Unpack(SubSeq(f, p + 9, p + 12))
SequenceNumberField(f, p) == Unpack(SubSeq(f, p + 13, p + 16))

\* the header at the cursor and the body after it both parse
C5_HeaderAndBodyParse ==
    LET h == decodeHeader(file, start)
    IN  /\ h.ok
        /\ decodeBody(file, h.pos, h.val.command_id.v, h.val.command_status.v,
                      h.val.command_length.v - HEADER_LEN, NoLength).r.ok

\* the cursor after the body of the PDU at the cursor start
C5_BodyEnd ==
    LET h == decodeHeader(file, start)
    IN  decodeBody(file, h.pos, h.val.command_id.v, h.val.command_status.v,
                   h.val.command_length.v - HEADER_LEN, NoLength).r.pos

\* C5: a decode that returns a PDU leaves the cursor command_length bytes
\* after where it was, also on a stream that holds more bytes; a decode
\* whose header and body parse over another number of bytes fails with
\* PDUCorruptError, ESME_RINVCMDLEN.
C5_CursorAdvance ==
    (pc = "decoded")
        => /\ res.ok => (pos = res.pos /\ pos - start = CommandLengthField(file, start))
           /\ (C5_HeaderAndBodyParse /\ C5_BodyEnd - start # CommandLengthField(file, start))
                => (~res.ok /\ res.cls = "PDUCorruptError" /\ res.status = "ESME_RINVCMDLEN")

C5_Witness ==
    /\ pc = "decoded" /\ start = 18 /\ res.ok /\ pos = start + 17
    /\ res.val.id = "deliver_sm_resp"

\* a whole header is at the cursor and its command_length is less than 16
C6_ShortLength ==
    /\ pc = "decoded"
    /\ Len(file) - start >= HEADER_LEN
    /\ CommandLengthField(file, start) < HEADER_LEN

\* C6 as stated: a header whose command_length is less than 16 fails with
\* PDUCorruptError, ESME_RINVCMDLEN, whatever its other three fields hold.
C6_ShortLengthAnyHeader ==
    C6_ShortLength
        => (~res.ok /\ res.cls = "PDUCorruptError" /\ res.status = "ESME_RINVCMDLEN")

\* C6, amended: a header whose command_length is less than 16 fails, whatever
\* its sequence_number: with PDUCorruptError, ESME_RINVCMDID when its
\* command_id is not in the registry, else with PDUParseError,
\* ESME_RUNKNOWNERR when its command_status is not in the registry, else with
\* PDUCorruptError, ESME_RINVCMDLEN.
C6_ShortLengthKnownHeader ==
    C6_ShortLength
        => /\ ~res.ok
           /\ <<res.cls, res.status>> =
                IF CommandIdField(file, start) \notin DOMAIN ValueMap(command_id_name_map)
                THEN <<"PDUCorruptError", "ESME_RINVCMDID">>
                ELSE IF CommandStatusField(file, start)
                            \notin DOMAIN ValueMap(command_status_name_map)
                THEN <<"PDUParseError", "ESME_RUNKNOWNERR">>
                ELSE <<"PDUCorruptError", "ESME_RINVCMDLEN">>

C6_Witness ==
    /\ C6_ShortLength
    /\ CommandLengthField(file, start) = 15
    /\ SequenceNumberField(file, start) = 0
    /\ res.status = "ESME_RINVCMDLEN"

\* the header fields of p are ones encodeHeader accepts
HeaderFieldsValid(p) ==
    /\ p.id \in DOMAIN command_id_name_map
    /\ p.status \in DOMAIN command_status_name_map
    /\ p.sequence_number = Null \/ p.sequence_number.v >= 1

\* C7: with no_body_on_error and a status other than ESME_ROK, encode returns
\* the 16 header bytes whatever the params are, and decode reads no byte after
\* the header and returns a PDU without params; for any other PDU the body is
\* encoded and decoded in full, each mandatory param included.
C7_NoBodyOnError ==
    /\ (pc = "encoded" /\ HeaderFieldsValid(arg) /\ NoBody(arg.id, arg.status))
            => (out.ok /\ Len(out.bytes) = HEADER_LEN)
    /\ (pc = "encoded" /\ out.ok /\ ~NoBody(arg.id, arg.status))
            => /\ Range(mandatory_params[arg.id]) \subseteq DOMAIN arg.params
               /\ SubSeq(out.bytes, HEADER_LEN + 1, Len(out.bytes))
                    = BodyParts(arg, length)[1] \o BodyParts(arg, length)[2]
    /\ (pc = "decoded" /\ decodeHeader(file, start).ok
            /\ NoBody(decodeHeader(file, start).val.command_id.v,
                      decodeHeader(file, start).val.command_status.v))
            => /\ pos = start + HEADER_LEN
               /\ res.ok <=> CommandLengthField(file, start) = HEADER_LEN
               /\ res.ok => res.val.params = EmptyParams
    /\ (pc = "decoded" /\ res.ok /\ ~NoBody(res.val.id, res.val.status))
            => /\ Range(mandatory_params[res.val.id]) \subseteq DOMAIN res.val.params
               /\ pos = C5_BodyEnd

C7_Witness ==
    /\ pc = "decoded" /\ via = "roundtrip" /\ res.ok
    /\ arg.id = "submit_sm_resp" /\ arg.status = "ESME_RSYSERR"
    /\ "message_id" \in DOMAIN arg.params
    /\ res.val.params = EmptyParams

\* C8: sequence_number 0 is rejected by encode and by decode.
C8_SequenceNumberZeroRejected ==
    /\ (pc = "encoded" /\ arg.sequence_number = I(0)) => ~out.ok
    /\ (pc = "decoded" /\ Len(file) - start >= HEADER_LEN
            /\ SequenceNumberField(file, start) = 0) => ~res.ok

\* the bytes of the stream up to its first 0x00 included; none without a 0x00
TerminatedField(f) ==
    LET ends == {i \in 1..Len(f) : f[i] = 0}
    IN  IF ends = {} THEN <<>>
        ELSE SubSeq(f, 1, CHOOSE i \in ends : \A j \in ends : i <= j)

IsAscii(bytes) == \A i \in 1..Len(bytes) : bytes[i] <= 127

\* encode of an ASCII string: at most maxSize - 1 characters are accepted and
\* returned with one 0x00 after them, more are rejected
C9_EncodeBoundary ==
    (pc = "encoded" /\ arg # Null /\ IsAscii(arg.v))
        => IF Len(arg.v) <= codec.maxSize - 1
           THEN out.ok /\ out.bytes = arg.v \o <<0>>
           ELSE ~out.ok

\* decode of a terminated field of more than maxSize bytes fails as configured
C9_DecodeTooLong ==
    (pc = "decoded" /\ Len(TerminatedField(file)) > codec.maxSize)
        => (~res.ok /\ res.cls = codec.cls /\ res.status = codec.status)

ParamsBefore(f, p, id, k) ==
    decodeRequiredParams(SubSeq(mandatory_params[id], 1, k), getRequiredParamEncoders(id),
                         f, p + HEADER_LEN, 1, EmptyParams)

TimeParams == {"schedule_delivery_time", "validity_period"}

\* the index of the mandatory param n of the command
ParamIndex(id, n) ==
    CHOOSE i \in 1..Len(mandatory_params[id]) : mandatory_params[id][i] = n

\* the header at the cursor is one of a deliver_sm and the params before the
\* param n parse
C10_FieldReached(n) ==
    /\ pc = "decoded"
    /\ decodeHeader(file, start).ok
    /\ decodeHeader(file, start).val.command_id.v = "deliver_sm"
    /\ ParamsBefore(file, start, "deliver_sm", ParamIndex("deliver_sm", n) - 1).ok

\* the first byte of the param n of the deliver_sm at the cursor, -1 at the end of the bytes
C10_FirstByte(n) ==
    LET p == ParamsBefore(file, start, "deliver_sm", ParamIndex("deliver_sm", n) - 1).pos
    IN  IF p < Len(file) THEN file[p + 1] ELSE -1

\* C10: for deliver_sm, encode rejects a schedule_delivery_time or
\* validity_period that is not null and decode rejects one that is not the
\* single null byte; a null one is accepted by encode, as one null byte, and by
\* decode, as null.
C10_DeliverSmTimesNull ==
    /\ (pc = "encoded" /\ arg.id = "deliver_sm"
            /\ \E n \in TimeParams \cap DOMAIN arg.params : arg.params[n] # Null)
            => ~out.ok
    /\ \A n \in TimeParams :
            /\ (C10_FieldReached(n) /\ C10_FirstByte(n) > 0) => ~res.ok
            /\ (C10_FieldReached(n) /\ C10_FirstByte(n) = 0)
                    => ParamsBefore(file, start, "deliver_sm", ParamIndex("deliver_sm", n)).ok
    /\ (pc = "decoded" /\ res.ok /\ res.val.id = "deliver_sm")
            => \A n \in TimeParams : res.val.params[n] = Null
    /\ (pc = "encoded" /\ arg = PDU("deliver_sm", I(1), "ESME_ROK", BaseSmParams))
            => /\ out.ok
               /\ \A n \in TimeParams :
                    out.bytes[ParamsBefore(out.bytes, 0, "deliver_sm",
                                           ParamIndex("deliver_sm", n) - 1).pos + 1] = 0

C10_Witness ==
    /\ C10_FieldReached("validity_period")
    /\ C10_FirstByte("validity_period") > 0
    /\ res.cls = "PDUParseError"


(***************************************************************************)
(* Properties of OptionEncoder                                             *)
(***************************************************************************)
\* the tag and the length field at the head of a stream of at least 4 bytes
TlvTag(f) == Unpack(SubSeq(f, 1, 2))
TlvLength(f) == Unpack(SubSeq(f, 3, 4))

\* the stream starts with a tag and a length field, and the tag has a value codec
HasValueCodec(f) ==
    /\ Len(f) >= 4
    /\ TlvTag(f) \in DOMAIN ValueMap(tag_name_map)
    /\ ValueMap(tag_name_map)[TlvTag(f)] \in DOMAIN options

\* what the value codec of the TLV at the head of f does with the bytes after
\* the length field
ValueDecode(f) ==
    FieldDecode(options[ValueMap(tag_name_map)[TlvTag(f)]], f, 4, TlvLength(f))

\* C11: decode returns an Option only when the value codec consumed exactly the
\* declared length, the cursor then standing 4 + length after the start; when
\* the value codec returns having consumed another number of bytes, decode
\* fails with PDUParseError and ESME_RINVPARLEN; and the length field encode
\* writes is the number of value bytes that follow it.
C11_ParsedLengthIsDeclared ==
    /\ (pc = "decoded" /\ res.ok)
            => (HasValueCodec(file) /\ pos = start + 4 + TlvLength(file))
    /\ (pc = "decoded" /\ HasValueCodec(file))
            => LET Checked(value) ==
                       (value.ok /\ value.pos - 4 # TlvLength(file))
                           => (~res.ok /\ res.cls = "PDUParseError"
                               /\ res.status = "ESME_RINVPARLEN")
               IN  Checked(ValueDecode(file))
    /\ (pc = "encoded" /\ out.ok)
            => (Len(out.bytes) >= 4 /\ TlvLength(out.bytes) = Len(out.bytes) - 4)

\* a user_message_reference declared 1 byte long, whose codec reads 2
C11_Witness ==
    /\ pc = "decoded"
    /\ file = WireTlv(tag_name_map["user_message_reference"], 1, <<1, 2>>)
    /\ ~res.ok /\ res.status = "ESME_RINVPARLEN"

\* where the TLVs start in a submit_sm or deliver_sm whose mandatory fields are BaseSmFields
SmTlvStart == HEADER_LEN + Len(Concat(BaseSmFields))

\* the bytes from the first TLV on
FirstTlv == SubSeq(file, SmTlvStart + 1, Len(file))

\* decode was given a submit_sm or deliver_sm whose mandatory fields decode and
\* whose body goes on with the tag and the length field of a TLV
C12_AtFirstTlv ==
    /\ pc = "decoded" /\ start = 0
    /\ Len(file) >= SmTlvStart + 4
    /\ CommandIdField(file, 0) \in {command_id_name_map["submit_sm"],
                                     command_id_name_map["deliver_sm"]}
    /\ CommandStatusField(file, 0) = 0
    /\ CommandLengthField(file, 0) > SmTlvStart
    /\ SubSeq(file, HEADER_LEN + 1, SmTlvStart) = Concat(BaseSmFields)

C12_Fails(status) == ~res.ok /\ res.cls = "PDUParseError" /\ res.status = status

\* a registry tag that has no value codec is rejected with ESME_ROPTPARNOTALLWD
C12_NoCodec ==
    (/\ C12_AtFirstTlv
     /\ TlvTag(FirstTlv) \in DOMAIN ValueMap(tag_name_map)
     /\ ValueMap(tag_name_map)[TlvTag(FirstTlv)] \notin DOMAIN options)
        => C12_Fails("ESME_ROPTPARNOTALLWD")

\* a TLV that OptionEncoder.decode returns and whose tag is not in the optional
\* params of the command is rejected with ESME_ROPTPARNOTALLWD
C12_NotInList ==
    (/\ C12_AtFirstTlv
     /\ HasValueCodec(FirstTlv)
     /\ ValueMap(tag_name_map)[TlvTag(FirstTlv)]
            \notin Range(optional_params[ValueMap(command_id_name_map)[CommandIdField(file, 0)]])
     /\ OptionDecode(FirstTlv, 0, NoLength).r.ok)
        => C12_Fails("ESME_ROPTPARNOTALLWD")

\* C12 as stated: a tag without a value codec, be it absent from the tag
\* registry or a registry tag without codec, and a tag with a codec that the
\* command does not accept, all fail with ESME_ROPTPARNOTALLWD.
C12_UnknownTagNotAllowed ==
    /\ (C12_AtFirstTlv /\ TlvTag(FirstTlv) \notin DOMAIN ValueMap(tag_name_map))
            => C12_Fails("ESME_ROPTPARNOTALLWD")
    /\ C12_NoCodec
    /\ C12_NotInList

\* C12, amended: a tag value absent from the tag registry fails in TagEncoder
\* with ESME_RINVOPTPARSTREAM; a registry tag without a value codec, and a
\* decodable TLV whose tag the command does not accept, fail with
\* ESME_ROPTPARNOTALLWD.
C12_UnknownTagInvalidStream ==
    /\ (C12_AtFirstTlv /\ TlvTag(FirstTlv) \notin DOMAIN ValueMap(tag_name_map))
            => C12_Fails("ESME_RINVOPTPARSTREAM")
    /\ C12_NoCodec
    /\ C12_NotInList

\* a submit_sm that carries a receipted_message_id, which only deliver_sm accepts
C12_Witness ==
    /\ C12_AtFirstTlv
    /\ CommandIdField(file, 0) = command_id_name_map["submit_sm"]
    /\ TlvTag(FirstTlv) = tag_name_map["receipted_message_id"]
    /\ C12_Fails("ESME_ROPTPARNOTALLWD")

\* C13: whenever the value codec of a TLV fails with a PDUParseError, whatever
\* its status, OptionEncoder.decode fails with a PDUParseError that carries
\* ESME_RINVOPTPARAMVAL.
C13_ValueErrorRestamped ==
    (pc = "decoded" /\ HasValueCodec(file))
        => LET Restamped(value) ==
                   (~value.ok /\ value.cls = "PDUParseError")
                       => (~res.ok /\ res.cls = "PDUParseError"
                           /\ res.status = "ESME_RINVOPTPARAMVAL")
           IN  Restamped(ValueDecode(file))

\* a privacy_indicator of an unknown value, whose codec fails with ESME_RUNKNOWNERR
C13_Witness ==
    /\ pc = "decoded"
    /\ file = WireTlv(tag_name_map["privacy_indicator"], 1, <<9>>)
    /\ ~ValueDecode(file).ok /\ ValueDecode(file).status = "ESME_RUNKNOWNERR"
    /\ ~res.ok /\ res.status = "ESME_RINVOPTPARAMVAL"


(***************************************************************************)
(* Properties of UserDataHeaderEncoder                                     *)
(***************************************************************************)
\* the repeatable elements of the list come before the others
RepeatableFirst(u) ==
    \A i, j \in 1..Len(u) :
        (i < j /\ is_identifier_repeatable(u[j].identifier))
            => is_identifier_repeatable(u[i].identifier)

\* C14: a list of elements that encode accepts and that has its repeatable
\* elements first, elements of empty opaque data included, decodes from the
\* encoded bytes to an equal list.
C14_UdhRoundTrip ==
    (pc = "decoded" /\ via = "roundtrip" /\ RepeatableFirst(arg))
        => (res.ok /\ res.val = arg)

\* a non-repeatable identifier appears twice in u
RepeatsNonRepeatable(u) ==
    \E i, j \in 1..Len(u) :
        /\ i < j
        /\ u[i].identifier = u[j].identifier
        /\ ~is_identifier_repeatable(u[i].identifier)

\* u holds two identifiers one of which names the other in its exclusion list
HoldsExcluded(u) ==
    \E i, j \in 1..Len(u) :
        i # j /\ u[j].identifier \in get_identifier_exclusion_list(u[i].identifier)

\* each element of u encodes on its own, and together they take at most 255 bytes
RECURSIVE IeBytes(_)
IeBytes(u) ==
    IF u = <<>> THEN 0 ELSE Len(InformationElementEncode(Head(u)).bytes) + IeBytes(Tail(u))

FitsHeader(u) ==
    /\ \A i \in 1..Len(u) : InformationElementEncode(u[i]).ok
    /\ IeBytes(u) <= 255

\* C15 as stated: encode fails with ValueError on every list that repeats a
\* non-repeatable identifier or holds two identifiers of which one excludes the
\* other, and succeeds on every other list.
C15_FailsIffViolation ==
    (pc = "encoded" /\ via = "call")
        => IF RepeatsNonRepeatable(arg) \/ HoldsExcluded(arg)
           THEN ~out.ok /\ out.err = "ValueError"
           ELSE out.ok

\* C15, amended: encode returns no bytes for every list with one of the two
\* violations, and the failure is the ValueError of the rule when each element
\* encodes on its own; it succeeds on every list with neither violation whose
\* elements each encode and take at most 255 bytes together.
C15_FailsIffViolationOrTooLong ==
    (pc = "encoded" /\ via = "call")
        => IF RepeatsNonRepeatable(arg) \/ HoldsExcluded(arg)
           THEN /\ ~out.ok
                /\ (\A i \in 1..Len(arg) : InformationElementEncode(arg[i]).ok)
                        => out.err = "ValueError"
           ELSE FitsHeader(arg) => out.ok

\* two elements that exclude each other with a repeatable element between them
C15_Witness ==
    /\ pc = "encoded" /\ via = "call"
    /\ Len(arg) = 3
    /\ arg[1].identifier = "CONCATENATED_SM_16BIT_REF_NUM"
    /\ arg[2].identifier = "SPECIAL_SMS_MESSAGE_INDICATION"
    /\ arg[3] = InformationElement("CONCATENATED_SM_8BIT_REF_NUM", IEConcatenatedSM(170, 2, 1))
    /\ ~out.ok /\ out.err = "ValueError"

\* the elements that a decode which succeeds reads from the stream, one after
\* the other from the cursor p on: those that InformationElementEncoder.decode
\* returns, in the order of the stream
RECURSIVE ElementsRead(_, _, _)
ElementsRead(f, p, header_len) ==
    IF ~(p < header_len + 1) THEN <<>>
    ELSE LET Then(e) ==
                 IF ~e.ok THEN <<>>
                 ELSE (IF e.val = Null THEN <<>> ELSE <<e.val>>)
                          \o ElementsRead(f, e.pos, header_len)
         IN  Then(InformationElementDecode(f, p))

\* the elements read by the decode that res is the result of
ReadNow == ElementsRead(file, start + 1, file[start + 1])

Occurrences(list, e) == {i \in 1..Len(list) : list[i] = e}
WithIdentifier(list, n) == {i \in 1..Len(list) : list[i].identifier = n}
Last(indices) == CHOOSE i \in indices : \A j \in indices : j <= i

\* an element read after the i-th one excludes the identifier of the i-th one
ExcludedLater(read, i) ==
    \E j \in (i + 1)..Len(read) :
        read[i].identifier \in get_identifier_exclusion_list(read[j].identifier)

\* C16: after a decode that succeeds, every repeatable element read is
\* returned; of a non-repeatable identifier at most one element is returned,
\* and it is the last one read; and no element is returned of an identifier
\* that an element read after its last occurrence excludes.
C16_LastWinsExcludedDropped ==
    (pc = "decoded" /\ res.ok)
        => LET read == ReadNow
           IN  /\ \A i \in 1..Len(read) :
                    is_identifier_repeatable(read[i].identifier)
                        => Cardinality(Occurrences(res.val, read[i]))
                            = Cardinality(Occurrences(read, read[i]))
               /\ \A n \in DOMAIN information_element_identifier_name_map :
                    ~is_identifier_repeatable(n)
                        => /\ Cardinality(WithIdentifier(res.val, n)) <= 1
                           /\ \A k \in WithIdentifier(res.val, n) :
                                /\ WithIdentifier(read, n) # {}
                                /\ res.val[k] = read[Last(WithIdentifier(read, n))]
                           /\ (/\ WithIdentifier(read, n) # {}
                               /\ ExcludedLater(read, Last(WithIdentifier(read, n))))
                                => WithIdentifier(res.val, n) = {}

\* 8-bit concatenation, 16-bit concatenation, 8-bit again: the last one alone is returned
C16_Witness ==
    /\ pc = "decoded" /\ via = "call" /\ res.ok
    /\ file = <<16, 0, 3, 170, 2, 1, 8, 4, 1, 2, 2, 1, 0, 3, 170, 2, 1>>
    /\ res.val = <<InformationElement("CONCATENATED_SM_8BIT_REF_NUM",
                                      IEConcatenatedSM(170, 2, 1))>>

\* the indices of a set, in ascending order
RECURSIVE Ascending(_)
Ascending(indices) ==
    IF indices = {} THEN <<>>
    ELSE LET First(i) == <<i>> \o Ascending(indices \ {i})
         IN  First(CHOOSE i \in indices : \A j \in indices : i <= j)

IsRepeatable(e) == is_identifier_repeatable(e.identifier)

\* the occurrences that survive: the last one of a non-repeatable identifier,
\* with no element read after it that excludes it
Survivors(read) ==
    {i \in 1..Len(read) :
        /\ ~IsRepeatable(read[i])
        /\ i = Last(WithIdentifier(read, read[i].identifier))
        /\ ~ExcludedLater(read, i)}

\* the occurrence at which the identifier of a survivor entered the mapping
\* for the last time: its earliest occurrence with no excluding element after it
Entry(read, i) ==
    CHOOSE k \in WithIdentifier(read, read[i].identifier) :
        /\ ~ExcludedLater(read, k)
        /\ \A j \in WithIdentifier(read, read[i].identifier) :
                ~ExcludedLater(read, j) => k <= j

ByFinalOccurrence(read) ==
    LET order == Ascending(Survivors(read))
    IN  [k \in 1..Len(order) |-> read[order[k]]]

ByEntry(read) ==
    LET order == Ascending({Entry(read, i) : i \in Survivors(read)})
    IN  [k \in 1..Len(order) |->
            read[Last(WithIdentifier(read, read[order[k]].identifier))]]

\* C17 as stated: the list returned by a decode is the repeatable elements in
\* arrival order, then the surviving non-repeatable elements in the order of
\* the stream positions of their final occurrences.
C17_OrderedByFinalOccurrence ==
    (pc = "decoded" /\ res.ok)
        => res.val = SelectSeq(ReadNow, IsRepeatable) \o ByFinalOccurrence(ReadNow)

\* C17: the list returned by a decode is the repeatable elements in arrival
\* order, then the surviving non-repeatable elements, each being the final
\* occurrence of its identifier, in the order in which their identifiers
\* entered the mapping: the earliest occurrence of the identifier that no
\* later element excludes.
C17_OrderedByEntry ==
    (pc = "decoded" /\ res.ok)
        => res.val = SelectSeq(ReadNow, IsRepeatable) \o ByEntry(ReadNow)

\* SMSC control 05, 8-bit port addressing, SMSC control 06: the second SMSC
\* control element is returned at the place of the first
C17_Witness ==
    /\ pc = "decoded" /\ via = "call" /\ res.ok
    /\ file = <<10, 6, 1, 5, 4, 2, 1, 2, 6, 1, 6>>
    /\ res.val = <<InformationElement("SMSC_CONTROL_PARAMS", B(<<6>>)),
                   InformationElement("APPLICATION_PORT_ADDRESSING_SCHEME_8BIT_ADDRESS",
                                      B(<<1, 2>>))>>

\* the cursors at which the loop of a decode starts to read an element
RECURSIVE ElementStarts(_, _, _)
ElementStarts(f, p, header_len) ==
    IF ~(p < header_len + 1) THEN {}
    ELSE LET Then(e) == IF e.ok THEN ElementStarts(f, e.pos, header_len) ELSE {}
         IN  {p} \cup Then(InformationElementDecode(f, p))

StartsNow == ElementStarts(file, start + 1, file[start + 1])

\* the element at cursor p: its identifier byte, its declared length, and
\* whether the stream holds size bytes after these two
IdentifierByte(p) == file[p + 1]
DeclaredLength(p) == file[p + 2]
Holds(p, size) == p + 2 + size <= Len(file)
UnknownAt(p) ==
    /\ p + 2 <= Len(file)
    /\ \A n \in DOMAIN information_element_identifier_name_map :
            information_element_identifier_name_map[n] # IdentifierByte(p)

\* the bytes the sub-codec of a structured identifier consumes
StructuredSize(p) ==
    IF IdentifierByte(p) = information_element_identifier_name_map["CONCATENATED_SM_8BIT_REF_NUM"]
    THEN 3
    ELSE IF IdentifierByte(p)
                = information_element_identifier_name_map["CONCATENATED_SM_16BIT_REF_NUM"]
    THEN 4
    ELSE 0

\* the header without the k bytes after cursor p, its length byte lowered by k
Without(p, k) ==
    <<file[1] - k>> \o SubSeq(file, 2, p) \o SubSeq(file, p + k + 1, Len(file))

SameOutcome(a, b) ==
    /\ a.ok = b.ok
    /\ a.val = b.val
    /\ a.cls = b.cls

\* C18: in a decode, an element of unknown identifier and declared length n
\* that the stream holds takes n + 2 bytes and yields no element, and, where it
\* lies within the header, the decode ends as the decode of the header without
\* it; a concatenated-SM element whose declared length is not the 3 (8-bit) or
\* 4 (16-bit) bytes its sub-codec consumes fails the decode with UDHParseError.
C18_UnknownSkippedBadLengthFails ==
    (pc = "decoded" /\ start = 0 /\ file # <<>>)
        => \A p \in StartsNow :
            /\ (UnknownAt(p) /\ Holds(p, DeclaredLength(p)))
                => /\ InformationElementDecode(file, p)
                        = Ok(Null, p + DeclaredLength(p) + 2)
                   /\ p + DeclaredLength(p) + 2 <= file[1] + 1
                        => SameOutcome(res, UserDataHeaderDecode(
                                                Without(p, DeclaredLength(p) + 2), 0))
            /\ (/\ p + 2 <= Len(file)
                /\ StructuredSize(p) # 0
                /\ Holds(p, StructuredSize(p))
                /\ DeclaredLength(p) # StructuredSize(p))
                => ~res.ok /\ res.cls = "UDHParseError"

\* an unknown element without data between two elements that are returned
C18_Witness ==
    /\ pc = "decoded" /\ via = "call" /\ res.ok
    /\ file = <<10, 6, 1, 5, 99, 0, 0, 3, 170, 2, 1>>
    /\ Len(res.val) = 2

\* a 16-bit concatenation element that declares 3 bytes fails the header
C18_WitnessBadLength ==
    /\ pc = "decoded" /\ via = "call"
    /\ file = <<9, 8, 3, 1, 2, 2, 1, 2, 1, 2>>
    /\ ~res.ok /\ res.cls = "UDHParseError"

\* the number of data bytes of an element: those of its opaque data, or the 3
\* or 4 bytes of a concatenated-SM value
DataLen(e) ==
    IF e.identifier \in DOMAIN dataEncoders
    THEN (IF dataEncoders[e.identifier] THEN 4 ELSE 3)
    ELSE IF e.data = Null THEN 0 ELSE Len(e.data.v)

RECURSIVE ElementsTotal(_)
ElementsTotal(u) == IF u = <<>> THEN 0 ELSE 2 + DataLen(Head(u)) + ElementsTotal(Tail(u))

\* from cursor p on, bytes holds the elements of u from the i-th on, each as an
\* identifier byte, a length byte equal to its number of data bytes, and as
\* many data bytes, and nothing after the last
RECURSIVE Framed(_, _, _, _)
Framed(bytes, p, u, i) ==
    IF i > Len(u) THEN p = Len(bytes)
    ELSE /\ p + 2 <= Len(bytes)
         /\ bytes[p + 1] = information_element_identifier_name_map[u[i].identifier]
         /\ bytes[p + 2] = DataLen(u[i])
         /\ Framed(bytes, p + 2 + bytes[p + 2], u, i + 1)

\* C19: the bytes that encode returns start with a byte equal to the number
\* of bytes after it, and hold for each element a length byte equal to the
\* number of its data bytes; encode returns no bytes for elements that total
\* more than 255 bytes.
C19_LengthBytesExact ==
    (pc = "encoded" /\ via = "call")
        => /\ out.ok => /\ out.bytes # <<>>
                        /\ out.bytes[1] = Len(out.bytes) - 1
                        /\ Framed(out.bytes, 1, arg, 1)
           /\ ElementsTotal(arg) > 255 => ~out.ok /\ out.bytes = <<>>

\* an 8-bit concatenation element and an opaque one in one header
C19_Witness ==
    /\ pc = "encoded" /\ via = "call" /\ out.ok
    /\ Len(arg) = 2
    /\ out.bytes = <<9, 0, 3, 170, 2, 1, 1, 2, 1, 2>>

\* two elements of 128 bytes each are not encoded
C19_WitnessTooLong ==
    /\ pc = "encoded" /\ via = "call" /\ ~out.ok
    /\ ElementsTotal(arg) = 256


(***************************************************************************)
(* Properties of TimeEncoder                                               *)
(***************************************************************************)
\* the cursor before the k-th mandatory field of a submit_sm whose fields
\* before it are those of BaseSmFields
FieldStart(k) == HEADER_LEN + Len(Concat(SubSeq(BaseSmFields, 1, k - 1)))

\* file holds one whole submit_sm with the fields of BaseSmFields before the k-th
SubmitSmUpTo(k) ==
    /\ Len(file) > FieldStart(k)
    /\ SubSeq(file, 1, 8)
        = SubSeq(WireHeader(Len(file), command_id_name_map["submit_sm"], 0, 0), 1, 8)
    /\ SubSeq(file, HEADER_LEN + 1, FieldStart(k)) = Concat(SubSeq(BaseSmFields, 1, k - 1))

\* the C-octet string that starts at cursor p: the bytes up to the first NUL
StringAt(p) ==
    SubSeq(file, p + 1,
           CHOOSE z \in (p + 1)..Len(file) :
                file[z] = 0 /\ \A j \in (p + 1)..(z - 1) : file[j] # 0)

\* the time field at cursor p holds a string that is not null and is over 17
\* bytes with its terminator, or is not of the time grammar
TimeFails(p) ==
    /\ \E z \in (p + 1)..Len(file) : file[z] = 0
    /\ StringAt(p) # <<0>>
    /\ \/ Len(StringAt(p)) > 17
       \/ ~smpp_time_parse(SubSeq(StringAt(p), 1, Len(StringAt(p)) - 1)).ok

\* C20 as stated: the decode of a submit_sm whose schedule_delivery_time fails
\* to decode fails with ESME_RINVSCHED, and that of one whose validity_period
\* fails to decode fails with ESME_RINVEXPIRY.
C20_TimeFieldOwnStatus ==
    (pc = "decoded" /\ start = 0)
        => /\ (SubmitSmUpTo(11) /\ TimeFails(FieldStart(11)))
                => ~res.ok /\ res.status = "ESME_RINVSCHED"
           /\ (SubmitSmUpTo(12) /\ TimeFails(FieldStart(12)))
                => ~res.ok /\ res.status = "ESME_RINVEXPIRY"


(***************************************************************************)
(* Properties of the codecs that require null                              *)
(***************************************************************************)
\* file holds one whole PDU of command id with command_status 0
WholePdu(id) ==
    /\ Len(file) > HEADER_LEN
    /\ SubSeq(file, 1, 12) = SubSeq(WireHeader(Len(file), command_id_name_map[id], 0, 0), 1, 12)

\* file holds one whole deliver_sm with the fields of BaseSmFields before the k-th
DeliverSmUpTo(k) ==
    /\ Len(file) > FieldStart(k)
    /\ WholePdu("deliver_sm")
    /\ SubSeq(file, HEADER_LEN + 1, FieldStart(k)) = Concat(SubSeq(BaseSmFields, 1, k - 1))

\* the C-octet string at cursor p is there and is not the null string
NonNullAt(p) ==
    /\ \E z \in (p + 1)..Len(file) : file[z] = 0
    /\ StringAt(p) # <<0>>

\* C21 as stated: the decode of a deliver_sm with a schedule_delivery_time
\* that is not null fails with ESME_RINVSCHED, with a validity_period that is
\* not null with ESME_RINVEXPIRY, and the decode of a deliver_sm_resp with a
\* message_id that is not null fails with ESME_RINVMSGID.
C21_RequireNullOwnStatus ==
    (pc = "decoded" /\ start = 0)
        => /\ (DeliverSmUpTo(11) /\ NonNullAt(FieldStart(11)))
                => ~res.ok /\ res.status = "ESME_RINVSCHED"
           /\ (DeliverSmUpTo(12) /\ NonNullAt(FieldStart(12)))
                => ~res.ok /\ res.status = "ESME_RINVEXPIRY"
           /\ (WholePdu("deliver_sm_resp") /\ NonNullAt(HEADER_LEN))
                => ~res.ok /\ res.status = "ESME_RINVMSGID"


(***************************************************************************)
(* Two callers of one OptionEncoder.  Each call of decode runs in three    *)
(* steps, between which the other caller may run: the tag and the length   *)
(* field are read and self.length is assigned; the value codec decodes,    *)
(* asking getLength() for its size; the bytes parsed are compared with     *)
(* self.length.  Here the variables but codec, length and via hold one     *)
(* entry for each caller; via tells whether the callers take turns         *)
(* ("serial") or not ("interleaved").                                      *)
(***************************************************************************)
Callers == {1, 2}

\* the TLVs the two callers decode: variable-length values and fixed ones
SharedStreams ==
    {WireTlv(tag_name_map["message_payload"], 2, <<1, 2>>),
     WireTlv(tag_name_map["message_payload"], 3, <<1, 2, 3>>),
     WireTlv(tag_name_map["sms_signal"], 1, <<9>>),
     WireTlv(tag_name_map["source_subaddress"], 3, <<160, 5, 6>>),
     WireTlv(tag_name_map["callback_num"], 4, <<1, 0, 1, 49>>),
     WireTlv(tag_name_map["user_message_reference"], 2, <<1, 2>>),
     WireTlv(tag_name_map["alert_on_message_delivery"], 0, <<>>),
     WireTlv(65535, 1, <<1>>)}

\* the value and the length that getLength() returned while it was decoded
NoValue == [value |-> NoRes, used |-> NoLength, checked |-> NoLength]

InitShared ==
    /\ codec = "OptionEncoder"
    /\ length = NoLength
    /\ via \in {"serial", "interleaved"}
    /\ pc = [t \in Callers |-> "idle"]
    /\ arg = [t \in Callers |-> Null]
    /\ out = [t \in Callers |-> NoValue]
    /\ file = [t \in Callers |-> <<>>]
    /\ start = [t \in Callers |-> 0]
    /\ pos = [t \in Callers |-> 0]
    /\ res = [t \in Callers |-> NoRes]

\* self.length = Int2Encoder().decode(file), where the decode returns
KeepLength(lengthField, len) == len

NewLength(lengthField, len) ==
    IF ~lengthField.ok THEN len
    ELSE IF lengthField.val = Null THEN NoLength ELSE lengthField.val.v

\* what the first step leaves: the failure of the call, or Ok with the tag
FirstStep(tag, lengthField) ==
    IF ~tag.ok THEN tag
    ELSE IF ~lengthField.ok THEN lengthField
    ELSE IF tag.val = Null \/ tag.val.v \notin DOMAIN options
    THEN Fail("PDUParseError", "ESME_ROPTPARNOTALLWD", lengthField.pos)
    ELSE Ok(tag.val, lengthField.pos)

\* caller t calls decode(io.BytesIO(f)): tag, self.length, the lookup of the codec
ReadTagAndLength(t, f) ==
    /\ pc[t] = "idle"
    /\ via = "serial" => \A u \in Callers : pc[u] = "idle"
    /\ \E tag \in {NullableDecode(TagEncoder, f, 0, length)} :
       \E lengthField \in {IF tag.ok THEN NullableDecode(Int2Encoder, f, tag.pos, length)
                           ELSE tag} :
       \E first \in {FirstStep(tag, lengthField)} :
            /\ length' = (IF tag.ok THEN NewLength(lengthField, length) ELSE length)
            /\ file' = [file EXCEPT ![t] = f]
            /\ arg' = [arg EXCEPT ![t] = first.val]
            /\ start' = [start EXCEPT ![t] = first.pos]
            /\ pos' = [pos EXCEPT ![t] = first.pos]
            /\ res' = [res EXCEPT ![t] = IF first.ok THEN NoRes ELSE first]
            /\ pc' = [pc EXCEPT ![t] = IF first.ok THEN "value" ELSE "done"]
    /\ UNCHANGED <<codec, via, out>>

\* caller t: value = encoder.decode(file), with the except clause
DecodeValue(t) ==
    /\ pc[t] = "value"
    /\ \E value \in {FieldDecode(options[arg[t].v], file[t], start[t], length)} :
            /\ out' = [out EXCEPT ![t] = [value |-> value, used |-> length,
                                          checked |-> NoLength]]
            /\ pos' = [pos EXCEPT ![t] = value.pos]
            /\ res' = [res EXCEPT ![t] =
                        IF value.ok THEN NoRes
                        ELSE IF value.cls = "PDUParseError"
                        THEN Fail("PDUParseError", "ESME_RINVOPTPARAMVAL", value.pos)
                        ELSE value]
            /\ pc' = [pc EXCEPT ![t] = IF value.ok THEN "check" ELSE "done"]
    /\ UNCHANGED <<codec, length, via, arg, file, start>>

\* caller t: parseLen != self.length, and the return of the Option
CheckLength(t) ==
    /\ pc[t] = "check"
    /\ out' = [out EXCEPT ![t].checked = length]
    /\ res' = [res EXCEPT ![t] =
                IF pos[t] - start[t] # length
                THEN Fail("PDUParseError", "ESME_RINVPARLEN", pos[t])
                ELSE Ok(Option(arg[t].v, out[t].value.val), pos[t])]
    /\ pc' = [pc EXCEPT ![t] = "done"]
    /\ UNCHANGED <<codec, length, via, arg, file, start, pos>>

\* caller t has its result or its exception and may call again
Finish(t) ==
    /\ pc[t] = "done"
    /\ pc' = [pc EXCEPT ![t] = "idle"]
    /\ arg' = [arg EXCEPT ![t] = Null]
    /\ out' = [out EXCEPT ![t] = NoValue]
    /\ file' = [file EXCEPT ![t] = <<>>]
    /\ start' = [start EXCEPT ![t] = 0]
    /\ pos' = [pos EXCEPT ![t] = 0]
    /\ res' = [res EXCEPT ![t] = NoRes]
    /\ UNCHANGED <<codec, length, via>>

NextShared ==
    \/ \E t \in Callers : pc[t] = "idle" /\ \E f \in SharedStreams : ReadTagAndLength(t, f)
    \/ \E t \in Callers : DecodeValue(t)
    \/ \E t \in Callers : CheckLength(t)
    \/ \E t \in Callers : Finish(t)

SpecShared == InitShared /\ [][NextShared]_vars


(***************************************************************************)
(* Properties of one OptionEncoder with two callers                        *)
(***************************************************************************)
\* the length field of the TLV of caller t, and what its decode returns when
\* no other call runs
Declared(t) == Unpack(SubSeq(file[t], 3, 4))
Alone(t) == OptionDecode(file[t], 0, NoLength).r

ValueDecoded(t) == out[t].value # NoRes

\* C22: when the callers take turns, a value codec is always given the
\* length of its own TLV; and whenever a call was given the length of its
\* own TLV, for the value and for the comparison, it ends as it does alone.
C22_OwnLengthWhenSerial ==
    \A t \in Callers :
        /\ (via = "serial" /\ ValueDecoded(t)) => out[t].used = Declared(t)
        /\ (/\ pc[t] = "done"
            /\ ValueDecoded(t) => out[t].used = Declared(t)
            /\ out[t].checked # NoLength => out[t].checked = Declared(t))
            => res[t] = Alone(t)

\* interleaved callers: a message_payload declared with 3 bytes is returned
\* with 2, the length of the TLV of the other caller
C22_Witness ==
    /\ via = "interleaved"
    /\ \E t \in Callers :
        /\ pc[t] = "done"
        /\ file[t] = WireTlv(tag_name_map["message_payload"], 3, <<1, 2, 3>>)
        /\ Alone(t).ok
        /\ out[t].used = 2
        /\ res[t].ok
        /\ res[t] # Alone(t)

\* interleaved callers: a TLV that decodes alone fails
C22_WitnessFails ==
    /\ via = "interleaved"
    /\ \E t \in Callers :
        /\ pc[t] = "done"
        /\ Alone(t).ok
        /\ ~res[t].ok

\* callers that take turns, each with a value decoded
C22_WitnessSerial ==
    /\ via = "serial"
    /\ \E t \in Callers :
        /\ pc[t] = "done"
        /\ res[t].ok
        /\ out[t].used = 3
        /\ length = 3


(***************************************************************************)
(* Properties of PDUEncoder.encodeBody                                     *)
(***************************************************************************)
\* the body of the PDU is encoded: not the case of no_body_on_error
BodyEncoded(pdu) == ~(pdu.status # "ESME_ROK" /\ no_body_on_error[pdu.id])

MissesMandatory(pdu) ==
    \E i \in 1..Len(mandatory_params[pdu.id]) :
        mandatory_params[pdu.id][i] \notin DOMAIN pdu.params

\* the optional params of the command that pdu.params holds, in the order of
\* the list of the command
PresentOptional(pdu) ==
    LET Present(n) == n \in DOMAIN pdu.params
    IN  SelectSeq(optional_params[pdu.id], Present)

\* the bytes of each mandatory param, in the declared order
MandatoryFields(pdu, len) ==
    [i \in 1..Len(mandatory_params[pdu.id]) |->
        FieldEncode(getRequiredParamEncoders(pdu.id)[mandatory_params[pdu.id][i]],
                    pdu.params[mandatory_params[pdu.id][i]], len).bytes]

\* the TLV of each optional param present, in the order of the list
OptionalTlvs(pdu, len) ==
    [i \in 1..Len(PresentOptional(pdu)) |->
        OptionEncode(Option(PresentOptional(pdu)[i], pdu.params[PresentOptional(pdu)[i]]),
                     len).bytes]

\* the PDU without the entries of params that are in neither list of the command
Listed(pdu) ==
    [pdu EXCEPT !.params =
        [n \in DOMAIN pdu.params
                \cap (Range(mandatory_params[pdu.id]) \cup Range(optional_params[pdu.id]))
            |-> pdu.params[n]]]

\* C23: where encode produces the body of a PDU, a mandatory param missing
\* from params makes it fail without bytes; the body it returns is the
\* mandatory params in the declared order, then one TLV, under its own tag,
\* for each optional param that params holds, in the order of the optional
\* list of the command; and the entries of params in neither list change
\* nothing.
C23_BodyInDeclaredOrder ==
    (pc = "encoded" /\ BodyEncoded(arg))
        => /\ MissesMandatory(arg) => ~out.ok /\ out.bytes = <<>>
           /\ out.ok
                => /\ SubSeq(out.bytes, HEADER_LEN + 1, Len(out.bytes))
                        = Concat(MandatoryFields(arg, length))
                            \o Concat(OptionalTlvs(arg, length))
                   /\ \A i \in 1..Len(PresentOptional(arg)) :
                        SubSeq(OptionalTlvs(arg, length)[i], 1, 2)
                            = Pack(2, tag_name_map[PresentOptional(arg)[i]])
           /\ out = PDUEncode(Listed(arg), length)

\* a submit_sm with message_payload and user_message_reference: the TLV of
\* user_message_reference, first in the list, comes first
C23_Witness ==
    /\ pc = "encoded" /\ via = "call" /\ out.ok
    /\ arg.id = "submit_sm"
    /\ PresentOptional(arg) = <<"user_message_reference", "message_payload">>
    /\ SubSeq(out.bytes, HEADER_LEN + Len(Concat(BaseSmFields)) + 1, Len(out.bytes))
        = WireTlv(tag_name_map["user_message_reference"], 2, <<1, 2>>)
            \o WireTlv(tag_name_map["message_payload"], 2, <<1, 2>>)

\* a PDU without a mandatory param, and one with an entry in neither list
C23_WitnessMissing ==
    /\ pc = "encoded" /\ via = "call" /\ ~out.ok
    /\ BodyEncoded(arg) /\ MissesMandatory(arg)

C23_WitnessUnlisted ==
    /\ pc = "encoded" /\ via = "call" /\ out.ok
    /\ arg.id = "submit_sm"
    /\ "not_a_param" \in DOMAIN arg.params


(***************************************************************************)
(* One DataCodingEncoder on its own: decode is called with each byte, and  *)
(* encode with what decode returned.                                       *)
(***************************************************************************)
Bytes == 0..255

InitDataCoding ==
    /\ codec = "DataCodingEncoder"
    /\ length = NoLength
    /\ pc = "idle"
    /\ via = ""
    /\ arg = Null
    /\ out = NoOut
    /\ file = <<>>
    /\ start = 0
    /\ pos = 0
    /\ res = NoRes

\* DataCodingEncoder().decode(io.BytesIO(bytes([b])))
DecodeDataCoding(b) ==
    /\ pc = "idle"
    /\ \E d \in {FieldDecode(DataCodingEncoder, <<b>>, 0, length)} :
            /\ file' = <<b>>
            /\ start' = 0
            /\ pos' = d.pos
            /\ res' = d
    /\ pc' = "decoded"
    /\ via' = "call"
    /\ UNCHANGED <<codec, length, arg, out>>

\* DataCodingEncoder().encode(v) for the value v that decode returned
ReEncodeDataCoding ==
    /\ pc = "decoded"
    /\ res.ok
    /\ pc' = "encoded"
    /\ via' = "reencode"
    /\ arg' = res.val
    /\ out' = FieldEncode(DataCodingEncoder, res.val, length)
    /\ UNCHANGED <<codec, length, file, start, pos, res>>

NextDataCoding ==
    \/ pc = "idle" /\ \E b \in Bytes : DecodeDataCoding(b)
    \/ ReEncodeDataCoding
    \/ Return

SpecDataCoding == InitDataCoding /\ [][NextDataCoding]_vars


(***************************************************************************)
(* Properties of DataCodingEncoder                                         *)
(***************************************************************************)
\* the name of the table whose value is n
NameOf(table, n) == CHOOSE name \in DOMAIN table : table[name] = n

\* the value that the byte b stands for: the scheme of the high nibble with
\* the coding of bit 2 and the class of bits 0-1, else the DEFAULT value that
\* is the whole byte, else the RAW byte
Classified(b) ==
    IF \E sch \in DOMAIN data_coding_scheme_name_map :
            data_coding_scheme_name_map[sch] = (b \div 16) * 16
    THEN DataCoding(NameOf(data_coding_scheme_name_map, (b \div 16) * 16),
                    DataCodingGsmMsg(
                        NameOf(data_coding_gsm_message_coding_name_map, ((b \div 4) % 2) * 4),
                        NameOf(data_coding_gsm_message_class_name_map, b % 4)))
    ELSE IF \E d \in DOMAIN data_coding_default_name_map : data_coding_default_name_map[d] = b
    THEN DataCoding("DEFAULT", En(NameOf(data_coding_default_name_map, b)))
    ELSE DataCoding("RAW", I(b))

\* C24 as stated: decode classifies every byte, the bytes F0..FF as
\* GSM_MESSAGE_CLASS, and the encode of the decoded value returns the byte.
C24_EncodeInvertsDecode ==
    /\ pc = "decoded" => res.ok /\ res.val = Classified(file[1])
    /\ (pc = "encoded" /\ via = "reencode") => out.ok /\ out.bytes = file

\* C24: decode classifies every byte, the bytes F0..FF as GSM_MESSAGE_CLASS,
\* and the encode of the decoded value returns the byte, but for the bytes
\* F8..FF, whose bit 3 no part of the value holds: they come back as F0..F7.
C24_EncodeInvertsDecodeButBit3 ==
    /\ pc = "decoded" => res.ok /\ res.val = Classified(file[1])
    /\ (pc = "encoded" /\ via = "reencode")
        => /\ out.ok
           /\ out.bytes = (IF file[1] >= 248 THEN <<file[1] - 8>> ELSE file)

\* F5 is DATA_8BIT with the class of value 1, and comes back as F5
C24_Witness ==
    /\ pc = "encoded" /\ via = "reencode" /\ out.ok
    /\ file = <<245>>
    /\ arg.v.scheme = "GSM_MESSAGE_CLASS"
    /\ arg.v.scheme_data.v.msg_coding = "DATA_8BIT"
    /\ out.bytes = <<245>>


(***************************************************************************)
(* Properties of the Integer codecs                                        *)
(***************************************************************************)
\* C25 as stated: every integer that is not null among the params of a
\* decoded PDU lies between the min and the max of the codec of its param.
C25_DecodedIntegersInRange ==
    (pc = "decoded" /\ res.ok)
        => \A name \in DOMAIN res.val.params :
            (/\ ParamEncoder(res.val.id, name).kind = "int"
             /\ res.val.params[name] # Null)
                => /\ ParamEncoder(res.val.id, name).min <= res.val.params[name].v
                   /\ res.val.params[name].v <= ParamEncoder(res.val.id, name).max


(***************************************************************************)
(* Properties of UserDataHeaderEncoder.decode at an offset                 *)
(***************************************************************************)
\* C26 as stated: a decode that starts at cursor start and succeeds leaves
\* the cursor after the length byte and the bytes it counts, and returns
\* what the decode of the same bytes returns at cursor 0.
C26_ReadsItsOwnBytes ==
    (pc = "decoded" /\ res.ok)
        => /\ pos = start + file[start + 1] + 1
           /\ res.val = UserDataHeaderDecode(SubSeq(file, start + 1, Len(file)), 0).val

====
